---- MODULE Spec2Model ----
(***************************************************************************)
(* SpriteSage: the undo/redo manager (utils.py), the sprite document       *)
(* (sprite_file.py), the sprite editor's editing operations                *)
(* (sprite_editor.py) and the export traversal (spritesheet.py,            *)
(* exporter.py), as state machines.                                        *)
(*                                                                         *)
(* Three specifications share the variables:                               *)
(*   Spec       the SpriteEditorView driven by user actions                *)
(*   SpecMgr    one UndoRedoManager driven by arbitrary calls              *)
(*   SpecExport one export of a sprite document                            *)
(***************************************************************************)
EXTENDS Integers, Sequences, FiniteSets, TLC

\* ------------------------------------------------------------------ bounds
\* handler invocations in one behaviour of Spec
MaxOps == 3
\* SpecMgr stops pushing onto a stack that holds this many entries (more than
\* the manager's capacity, so the guard never binds on the manager as written)
MaxStack == 4
\* largest value of the "Add AI Generated Frames" spin box that is tried
\* (the dialog allows 0..20)
MaxAiFrames == 3

\* --------------------------------------------------------------- constants
\* config.MAX_UNDO_COUNT is 1000; the model scales the capacity down so that
\* a run can fill the undo stack.
MAX_UNDO_COUNT == 3

\* ------------------------------------------------------------------- paths
\* A path is a sequence of components; a component is <<text, n>> and stands
\* for the file or directory name text (n = 0) or text_n (n > 0, the name the
\* copy-in loop builds).  An absolute path starts with Root.  NoPath is
\* Python's None / "" (both are falsy where the code tests a path).
Root == <<"/", 0>>
UpDir == <<"..", 0>>
CurDir == <<".", 0>>
NoPath == <<>>
IsAbs(p) == p # <<>> /\ p[1] = Root

\* the project (sage) directory and an unrelated directory outside it
SageDir == <<Root, <<"proj", 0>>>>
ExtDir == <<Root, <<"ext", 0>>>>
InProj(name) == Append(SageDir, <<name, 0>>)
InExt(name) == Append(ExtDir, <<name, 0>>)

IsPrefix(d, p) == Len(d) <= Len(p) /\ SubSeq(p, 1, Len(d)) = d

\* os.path.join(d, r): an absolute second argument replaces the first
join(d, r) == IF IsAbs(r) THEN r ELSE d \o r

RECURSIVE normparts(_, _)
normparts(done, rest) ==
    IF rest = <<>> THEN done
    ELSE IF rest[1] = CurDir THEN normparts(done, Tail(rest))
    ELSE IF rest[1] = UpDir /\ Len(done) > 1 /\ done[Len(done)] # UpDir
         THEN normparts(SubSeq(done, 1, Len(done) - 1), Tail(rest))
    ELSE IF rest[1] = UpDir /\ done = <<Root>>
         THEN normparts(done, Tail(rest))
    ELSE normparts(Append(done, rest[1]), Tail(rest))

\* os.path.normpath: drops "." components and collapses ".." ones
normpath(p) == normparts(<<>>, p)

\* os.path.abspath of a path that is already absolute
abspath(p) == normpath(p)

RECURSIVE CommonLen(_, _)
CommonLen(a, b) ==
    IF a = <<>> \/ b = <<>> \/ a[1] # b[1] THEN 0
    ELSE 1 + CommonLen(Tail(a), Tail(b))

\* os.path.relpath(p, start) for absolute p and start: both are made
\* normal with abspath first, and an empty result is "."
relpath(p, start) ==
    LET path_list == abspath(p)
        start_list == abspath(start)
        c == CommonLen(path_list, start_list)
        rel_list == [i \in 1..(Len(start_list) - c) |-> UpDir]
                       \o SubSeq(path_list, c + 1, Len(path_list))
    IN  IF rel_list = <<>> THEN <<CurDir>> ELSE rel_list

\* os.path.dirname / basename
dirname(p) == SubSeq(p, 1, Len(p) - 1)
basename(p) == p[Len(p)]

\* --------------------------------------------------------------- documents
\* SpriteFile: name stands for the scalar fields name, description, width and
\* height, which one code path (_get_sprite_data_to_save) treats alike.
\* animations is a Python dict: a sequence of Animation records in insertion
\* order, with unique names.
NoSprite == [none |-> TRUE]

Animation(n, fr) == [name |-> n, frames |-> fr]
SpriteFile(n, b, anims) == [name |-> n, base_image |-> b, animations |-> anims]

Keys(anims) == {anims[i].name : i \in 1..Len(anims)}
KeySeq(anims) == [i \in 1..Len(anims) |-> anims[i].name]
IndexOf(anims, n) == CHOOSE i \in 1..Len(anims) : anims[i].name = n

\* SpriteFile.get_animation_frames
get_animation_frames(sf, n) ==
    IF n \in Keys(sf.animations)
    THEN sf.animations[IndexOf(sf.animations, n)].frames
    ELSE <<>>

\* d[n] = Animation(n, fr): replaces in place, or appends a new key
DictSet(anims, n, fr) ==
    IF n \in Keys(anims)
    THEN [anims EXCEPT ![IndexOf(anims, n)] = Animation(n, fr)]
    ELSE Append(anims, Animation(n, fr))

\* del d[n]
DictDel(anims, n) ==
    LET k == IndexOf(anims, n)
    IN  SubSeq(anims, 1, k - 1) \o SubSeq(anims, k + 1, Len(anims))

\* Python's == on two dicts of Animation: insertion order is ignored
DictEq(a, b) ==
    /\ Keys(a) = Keys(b)
    /\ \A n \in Keys(a) : a[IndexOf(a, n)] = b[IndexOf(b, n)]

\* the dataclass's generated __eq__
SpriteEq(a, b) ==
    /\ a.name = b.name
    /\ a.base_image = b.base_image
    /\ DictEq(a.animations, b.animations)

\* SpriteFile.to_dict
to_dict(sf, sage_directory) ==
    [name |-> sf.name,
     base_image |-> IF sf.base_image = NoPath THEN sf.base_image
                    ELSE relpath(sf.base_image, sage_directory),
     animations |-> [i \in 1..Len(sf.animations) |->
        [name |-> sf.animations[i].name,
         frames |-> [k \in 1..Len(sf.animations[i].frames) |->
                        relpath(sf.animations[i].frames[k], sage_directory)]]]]

\* a plausible slip: the stored paths are not joined to the project directory
from_dict_no_anchor(data, sage_directory) ==
    SpriteFile(data.name,
               IF data.base_image = NoPath THEN NoPath ELSE data.base_image,
               [i \in 1..Len(data.animations) |->
                  Animation(data.animations[i].name,
                            data.animations[i].frames)])

\* SpriteFile.from_dict
from_dict(data, sage_directory) ==
    SpriteFile(data.name,
               IF data.base_image = NoPath THEN NoPath
               ELSE join(sage_directory, data.base_image),
               [i \in 1..Len(data.animations) |->
                  Animation(data.animations[i].name,
                            [k \in 1..Len(data.animations[i].frames) |->
                               join(sage_directory, data.animations[i].frames[k])])])

\* --------------------------------------------------------- UndoRedoManager
\* A manager is [undo |-> _undo_stack, redo |-> _redo_stack]; deepcopy is the
\* identity on values.
UndoRedoManager == [undo |-> <<>>, redo |-> <<>>]

\* a plausible slip: the redo stack is not cleared
save_undo_state_keeps_redo(m, state) ==
    IF m.undo # <<>> /\ SpriteEq(state, m.undo[Len(m.undo)])
    THEN m
    ELSE [undo |-> Append(IF Len(m.undo) = MAX_UNDO_COUNT THEN Tail(m.undo)
                          ELSE m.undo, state),
          redo |-> m.redo]

\* a plausible slip: a full stack drops its newest entry, not its oldest
save_undo_state_drops_newest(m, state) ==
    IF m.undo # <<>> /\ SpriteEq(state, m.undo[Len(m.undo)])
    THEN m
    ELSE [undo |-> Append(IF Len(m.undo) = MAX_UNDO_COUNT
                          THEN SubSeq(m.undo, 1, Len(m.undo) - 1)
                          ELSE m.undo, state),
          redo |-> <<>>]

\* a plausible slip: the state is not compared with the top of the stack
save_undo_state_no_dedup(m, state) ==
    [undo |-> Append(IF Len(m.undo) = MAX_UNDO_COUNT THEN Tail(m.undo)
                     ELSE m.undo, state),
     redo |-> <<>>]

save_undo_state(m, state) ==
    IF m.undo # <<>> /\ SpriteEq(state, m.undo[Len(m.undo)])
    THEN m
    ELSE [undo |-> Append(IF Len(m.undo) = MAX_UNDO_COUNT THEN Tail(m.undo)
                          ELSE m.undo, state),
          redo |-> <<>>]

\* a plausible slip: current_state is pushed before the emptiness test
perform_undo_pushes_always(m, current_state) ==
    IF m.undo = <<>>
    THEN [m |-> [m EXCEPT !.redo = Append(@, current_state)], ret |-> NoSprite]
    ELSE [m |-> [undo |-> SubSeq(m.undo, 1, Len(m.undo) - 1),
                 redo |-> Append(m.redo, current_state)],
          ret |-> m.undo[Len(m.undo)]]

\* a plausible slip: pops the bottom of the stack instead of the top
perform_undo_oldest(m, current_state) ==
    IF m.undo = <<>> THEN [m |-> m, ret |-> NoSprite]
    ELSE [m |-> [undo |-> Tail(m.undo),
                 redo |-> Append(m.redo, current_state)],
          ret |-> m.undo[1]]

perform_undo(m, current_state) ==
    IF m.undo = <<>> THEN [m |-> m, ret |-> NoSprite]
    ELSE [m |-> [undo |-> SubSeq(m.undo, 1, Len(m.undo) - 1),
                 redo |-> Append(m.redo, current_state)],
          ret |-> m.undo[Len(m.undo)]]

perform_redo(m) ==
    IF m.redo = <<>> THEN [m |-> m, ret |-> NoSprite]
    ELSE [m |-> [undo |-> Append(m.undo, m.redo[Len(m.redo)]),
                 redo |-> SubSeq(m.redo, 1, Len(m.redo) - 1)],
          ret |-> m.redo[Len(m.redo)]]

clear(m) == [undo |-> <<>>, redo |-> <<>>]

\* --------------------------------------------------------- SpriteEditorView
\* The editor as a record, so that a handler is an operator from the editor
\* before it to the editor after it and handlers can call each other:
\*   cfp, sd, name_edit, loader, anim_items, anim_cur, frame_items, frame_cur
\*        the fields and widgets (see the variables below)
\*   mgr  _undo_redo_manager
\*   disk, files  the file system
\*   pre  sprite_data as it was before the mutation in progress
\*   commits, calls, inserts, exc  what the handler did, for the properties

\* sorted(): Python orders str by code point
NameOrder == <<"A", "a", "b">>
Rank(n) == CHOOSE i \in 1..Len(NameOrder) : NameOrder[i] = n
NameLess(a, b) == Rank(a) < Rank(b)
sorted(names) == SortSeq(names, NameLess)

\* str.strip() on what can be typed into the Add Animation dialog
strip(raw) ==
    CASE raw = " " -> ""
      [] raw = " b" -> "b"
      [] OTHER -> raw

\* _base_dir = os.path.dirname(file_path): every sprite file of the model is
\* in the project directory
BaseDirOf(fp) == IF fp = "" THEN NoPath ELSE SageDir

Contains(seq, x) == \E i \in 1..Len(seq) : seq[i] = x

\* list.insert(i, x) with a 0-based i >= 0: an index past the end appends
ListInsert(seq, i, x) ==
    LET k == IF i > Len(seq) THEN Len(seq) ELSE i
    IN  SubSeq(seq, 1, k) \o <<x>> \o SubSeq(seq, k + 1, Len(seq))

\* list.pop(i) leaves this
ListRemove(seq, i) == SubSeq(seq, 1, i) \o SubSeq(seq, i + 2, Len(seq))

CurAnim(ed) == IF ed.anim_cur = 0 THEN "" ELSE ed.anim_items[ed.anim_cur]

get_sprite_data_to_save(ed) ==
    [ed.sd EXCEPT !.name = ed.name_edit, !.base_image = ed.loader]

save(ed) ==
    IF ed.cfp = "" \/ ed.sd = NoSprite THEN ed
    ELSE LET cur == get_sprite_data_to_save(ed)
         IN  [ed EXCEPT !.mgr = save_undo_state(ed.mgr, ed.sd),
                        !.disk = [@ EXCEPT ![ed.cfp] = to_dict(cur, SageDir)],
                        !.sd = cur,
                        !.commits = Append(@, [pre |-> ed.pre, arg |-> ed.sd,
                                               post |-> cur]),
                        !.pre = cur]

\* ImageLoaderWidget.load_image: what _absolute_path becomes
load_image(base_dir, p) ==
    IF p = NoPath \/ base_dir = NoPath THEN NoPath
    ELSE abspath(join(base_dir, p))

\* _on_current_anim_changed, after the anim list's current row became row
on_current_anim_changed(ed, row) ==
    LET frames == IF row = 0 THEN <<>>
                  ELSE get_animation_frames(ed.sd, ed.anim_items[row])
    IN  [ed EXCEPT !.anim_cur = row,
                   !.frame_items = frames,
                   !.frame_cur = IF Len(frames) > 0 THEN 1 ELSE 0]

\* load_sprite_data of a file that reads and parses
load_sprite_data(ed, file_path) ==
    LET sd == from_dict(ed.disk[file_path], SageDir)
        items == sorted(KeySeq(sd.animations))
        e1 == [ed EXCEPT
                 !.mgr = IF ed.cfp # "" /\ ed.cfp # file_path
                         THEN clear(ed.mgr) ELSE ed.mgr,
                 !.cfp = file_path,
                 !.sd = sd,
                 !.pre = sd,
                 !.name_edit = sd.name,
                 !.loader = load_image(BaseDirOf(file_path), sd.base_image),
                 !.anim_items = items,
                 !.anim_cur = 0,
                 !.frame_items = <<>>,
                 !.frame_cur = 0]
    IN  IF Len(items) > 0 THEN on_current_anim_changed(e1, 1) ELSE e1

\* a plausible slip: the except branch forgets current_file_path
load_sprite_data_failed_keeps_path(ed, file_path) ==
    [ed EXCEPT
       !.mgr = IF ed.cfp # "" /\ ed.cfp # file_path
               THEN clear(ed.mgr) ELSE ed.mgr,
       !.cfp = file_path,
       !.sd = NoSprite,
       !.pre = NoSprite,
       !.name_edit = "",
       !.loader = NoPath,
       !.anim_items = <<>>,
       !.anim_cur = 0,
       !.frame_items = <<>>,
       !.frame_cur = 0]

\* load_sprite_data when SpriteFile.from_json raises: the except branch
load_sprite_data_failed(ed, file_path) ==
    [ed EXCEPT
       !.mgr = IF ed.cfp # "" /\ ed.cfp # file_path
               THEN clear(ed.mgr) ELSE ed.mgr,
       !.cfp = "",
       !.sd = NoSprite,
       !.pre = NoSprite,
       !.name_edit = "",
       !.loader = NoPath,
       !.anim_items = <<>>,
       !.anim_cur = 0,
       !.frame_items = <<>>,
       !.frame_cur = 0]

\* a plausible slip: the snapshot replaces the document in memory and is not
\* written to the file
undo_in_memory_only(ed) ==
    IF ed.sd = NoSprite THEN [ed EXCEPT !.exc = TRUE]
    ELSE LET r == perform_undo(ed.mgr, get_sprite_data_to_save(ed))
             e1 == [ed EXCEPT !.mgr = r.m]
             e2 == load_sprite_data(
                     [e1 EXCEPT !.disk = [@ EXCEPT ![ed.cfp] =
                                             to_dict(r.ret, SageDir)]],
                     ed.cfp)
         IN  IF r.ret = NoSprite THEN e1
             ELSE [e2 EXCEPT !.disk = ed.disk]

\* undo(); with no sprite loaded _get_sprite_data_to_save raises
undo(ed) ==
    IF ed.sd = NoSprite THEN [ed EXCEPT !.exc = TRUE]
    ELSE LET r == perform_undo(ed.mgr, get_sprite_data_to_save(ed))
             e1 == [ed EXCEPT !.mgr = r.m]
         IN  IF r.ret = NoSprite THEN e1
             ELSE load_sprite_data(
                    [e1 EXCEPT !.disk = [@ EXCEPT ![ed.cfp] =
                                            to_dict(r.ret, SageDir)]],
                    ed.cfp)

redo(ed) ==
    LET r == perform_redo(ed.mgr)
        e1 == [ed EXCEPT !.mgr = r.m]
    IN  IF r.ret = NoSprite THEN e1
        ELSE load_sprite_data(
               [e1 EXCEPT !.disk = [@ EXCEPT ![ed.cfp] =
                                       to_dict(r.ret, SageDir)]],
               ed.cfp)

\* ---- _insert_frames_at_index
\* startswith(norm_basedir + os.sep)
IsUnder(p, base) == IsPrefix(base, p) /\ Len(p) > Len(base)

\* a source file shutil.copy2 cannot read
Unreadable == {InExt("gone")}

\* the while os.path.exists(target) loop, for a basename without suffix
RECURSIVE free_target(_, _, _, _)
free_target(base_dir, text, counter, existing) ==
    LET target == Append(base_dir, <<text, counter>>)
    IN  IF target \in existing
        THEN free_target(base_dir, text, counter + 1, existing)
        ELSE target

\* a plausible slip: the copy goes to the original basename, taken or not
insert_one_overwrites(st, fpath, anim_name, base_dir) ==
    LET abs_input == abspath(fpath)
        outside == ~IsUnder(abs_input, normpath(base_dir))
        failed == outside /\ abs_input \in Unreadable
        target == Append(base_dir, <<basename(abs_input)[1], 0>>)
        absolute_path == IF outside THEN normpath(target) ELSE abs_input
        files1 == IF outside THEN st.files \cup {target} ELSE st.files
        anims1 == IF anim_name \in Keys(st.anims) THEN st.anims
                  ELSE DictSet(st.anims, anim_name, <<>>)
        frame_list == anims1[IndexOf(anims1, anim_name)].frames
    IN  IF failed THEN [st EXCEPT !.resolved = Append(@, NoPath)]
        ELSE IF ~Contains(frame_list, absolute_path)
        THEN [anims |-> DictSet(anims1, anim_name,
                                ListInsert(frame_list, st.index, absolute_path)),
              files |-> files1,
              index |-> st.index + 1,
              added |-> Append(st.added, <<st.index, absolute_path>>),
              resolved |-> Append(st.resolved, absolute_path)]
        ELSE [st EXCEPT !.anims = anims1, !.files = files1,
                        !.resolved = Append(@, absolute_path)]

\* a plausible slip: insertion_index is not advanced after an insert
insert_one_no_advance(st, fpath, anim_name, base_dir) ==
    LET abs_input == abspath(fpath)
        outside == ~IsUnder(abs_input, normpath(base_dir))
        failed == outside /\ abs_input \in Unreadable
        target == free_target(base_dir, basename(abs_input)[1], 0, st.files)
        absolute_path == IF outside THEN normpath(target) ELSE abs_input
        files1 == IF outside THEN st.files \cup {target} ELSE st.files
        anims1 == IF anim_name \in Keys(st.anims) THEN st.anims
                  ELSE DictSet(st.anims, anim_name, <<>>)
        frame_list == anims1[IndexOf(anims1, anim_name)].frames
    IN  IF failed THEN [st EXCEPT !.resolved = Append(@, NoPath)]
        ELSE IF ~Contains(frame_list, absolute_path)
        THEN [anims |-> DictSet(anims1, anim_name,
                                ListInsert(frame_list, st.index, absolute_path)),
              files |-> files1,
              index |-> st.index,
              added |-> Append(st.added, <<st.index, absolute_path>>),
              resolved |-> Append(st.resolved, absolute_path)]
        ELSE [st EXCEPT !.anims = anims1, !.files = files1,
                        !.resolved = Append(@, absolute_path)]

\* insert_one without the "not in frame_list" test
insert_one_no_duplicate_test(st, fpath, anim_name, base_dir) ==
    LET abs_input == abspath(fpath)
        outside == ~IsUnder(abs_input, normpath(base_dir))
        failed == outside /\ abs_input \in Unreadable
        target == free_target(base_dir, basename(abs_input)[1], 0, st.files)
        absolute_path == IF outside THEN normpath(target) ELSE abs_input
        files1 == IF outside THEN st.files \cup {target} ELSE st.files
        anims1 == IF anim_name \in Keys(st.anims) THEN st.anims
                  ELSE DictSet(st.anims, anim_name, <<>>)
        frame_list == anims1[IndexOf(anims1, anim_name)].frames
    IN  IF failed THEN [st EXCEPT !.resolved = Append(@, NoPath)]
        ELSE [anims |-> DictSet(anims1, anim_name,
                                ListInsert(frame_list, st.index, absolute_path)),
              files |-> files1,
              index |-> st.index + 1,
              added |-> Append(st.added, <<st.index, absolute_path>>),
              resolved |-> Append(st.resolved, absolute_path)]

\* the body of the for loop over file_paths; st is the loop's state:
\*   anims  sprite_data.animations      files   the sprite's directory
\*   index  insertion_index (0-based)   added   the list added
\*   resolved  per input, the path to store (NoPath: the copy failed)
insert_one(st, fpath, anim_name, base_dir) ==
    LET abs_input == abspath(fpath)
        outside == ~IsUnder(abs_input, normpath(base_dir))
        failed == outside /\ abs_input \in Unreadable
        target == free_target(base_dir, basename(abs_input)[1], 0, st.files)
        absolute_path == IF outside THEN normpath(target) ELSE abs_input
        files1 == IF outside THEN st.files \cup {target} ELSE st.files
        anims1 == IF anim_name \in Keys(st.anims) THEN st.anims
                  ELSE DictSet(st.anims, anim_name, <<>>)
        frame_list == anims1[IndexOf(anims1, anim_name)].frames
    IN  IF failed THEN [st EXCEPT !.resolved = Append(@, NoPath)]
        ELSE IF ~Contains(frame_list, absolute_path)
        THEN [anims |-> DictSet(anims1, anim_name,
                                ListInsert(frame_list, st.index, absolute_path)),
              files |-> files1,
              index |-> st.index + 1,
              added |-> Append(st.added, <<st.index, absolute_path>>),
              resolved |-> Append(st.resolved, absolute_path)]
        ELSE [st EXCEPT !.anims = anims1, !.files = files1,
                        !.resolved = Append(@, absolute_path)]

RECURSIVE insert_loop(_, _, _, _)
insert_loop(st, file_paths, anim_name, base_dir) ==
    IF file_paths = <<>> THEN st
    ELSE insert_loop(insert_one(st, file_paths[1], anim_name, base_dir),
                     Tail(file_paths), anim_name, base_dir)

\* QListWidget.insertItem(idx, item) for each added pair: the current item
\* stays current, so its row moves down when an item is put at or above it
RECURSIVE widget_insert(_, _, _)
widget_insert(items, cur, added) ==
    IF added = <<>> THEN [items |-> items, cur |-> cur]
    ELSE LET idx == added[1][1]
         IN  widget_insert(ListInsert(items, idx, added[1][2]),
                           IF cur # 0 /\ idx < cur THEN cur + 1 ELSE cur,
                           Tail(added))

insert_frames_at_index(ed, file_paths, insertion_index) ==
    LET anim_name == CurAnim(ed)
        base_dir == BaseDirOf(ed.cfp)
        st0 == [anims |-> ed.sd.animations, files |-> ed.files,
                index |-> insertion_index, added |-> <<>>, resolved |-> <<>>]
        st == insert_loop(st0, file_paths, anim_name, base_dir)
        w == widget_insert(ed.frame_items, ed.frame_cur, st.added)
        e1 == [ed EXCEPT !.sd = [@ EXCEPT !.animations = st.anims],
                         !.files = st.files,
                         !.frame_items = w.items,
                         !.frame_cur = w.cur]
        e2 == IF st.added # <<>> THEN save(e1) ELSE e1
    IN  IF ed.anim_cur = 0 \/ base_dir = NoPath THEN ed
        ELSE [e2 EXCEPT !.inserts = Append(@,
                 [anim |-> anim_name, index |-> insertion_index,
                  paths |-> file_paths, resolved |-> st.resolved,
                  before |-> get_animation_frames(ed.sd, anim_name),
                  after |-> get_animation_frames(e2.sd, anim_name),
                  ncommits |-> Len(e2.commits) - Len(ed.commits)])]

\* ---- the generation backend, as the handlers see it
\* what one generation request comes to: a new image (kind "ok"), no result,
\* an exception from the call, or an exception from AIModelManager() (the
\* settings file cannot be read) before any request is made
Ok(p) == [kind |-> "ok", path |-> p]
NoResult == [kind |-> "none", path |-> NoPath]
Raises == [kind |-> "raise", path |-> NoPath]
SetupRaises == [kind |-> "raise_setup", path |-> NoPath]

\* the image the k-th successful request writes into the project directory
Gen(k) == Append(SageDir, <<"gen", k>>)

Request(where, ed, frames, fn, images, out, index) ==
    [where |-> where, sel |-> ed.frame_cur, frames |-> frames,
     base |-> ed.sd.base_image, fn |-> fn, images |-> images,
     result |-> out.kind, index |-> index]

\* _add_frame_at_index: file_paths is what the caller passed or, with None,
\* what the file dialog returned (nothing: the handler returns)
add_frame_at_index(ed, insertion_index, file_paths) ==
    IF file_paths = <<>> THEN ed
    ELSE insert_frames_at_index(ed, file_paths, insertion_index)

\* _add_frame_before, _add_frame_after: paths is the dialog's answer
add_frame_before(ed, paths) ==
    LET pos == IF ed.frame_cur # 0 THEN ed.frame_cur - 1 ELSE 0
    IN  add_frame_at_index(ed, pos, paths)

add_frame_after(ed, paths) ==
    LET pos == IF ed.frame_cur # 0 THEN ed.frame_cur ELSE Len(ed.frame_items)
    IN  add_frame_at_index(ed, pos, paths)

\* a plausible slip: the result is not tested before the commit
ai_finish_commits_always(ed, req, out, insertion_index) ==
    LET e1 == [ed EXCEPT !.calls = Append(@, req)]
    IN  CASE out.kind = "raise" -> [e1 EXCEPT !.exc = TRUE]
          [] out.kind = "none" -> save(e1)
          [] OTHER -> add_frame_at_index(
                        [e1 EXCEPT !.files = @ \cup {out.path}],
                        insertion_index, <<out.path>>)

\* the tail both AI handlers share once the request is built: call_with_busy,
\* "if not new_image: return", then the insert
ai_finish(ed, req, out, insertion_index) ==
    LET e1 == [ed EXCEPT !.calls = Append(@, req)]
    IN  CASE out.kind = "raise" -> [e1 EXCEPT !.exc = TRUE]
          [] out.kind = "none" -> e1
          [] OTHER -> add_frame_at_index(
                        [e1 EXCEPT !.files = @ \cup {out.path}],
                        insertion_index, <<out.path>>)

add_ai_generated_frame_before(ed, out) ==
    LET pos == IF ed.frame_cur # 0 THEN ed.frame_cur - 1 ELSE 0
        anim_name == CurAnim(ed)
        frames == get_animation_frames(ed.sd, anim_name)
        num_frames == Len(frames)
        base == ed.sd.base_image
    IN  IF out.kind = "raise_setup" THEN [ed EXCEPT !.exc = TRUE]
        ELSE IF ed.anim_cur = 0 THEN ed
        ELSE IF num_frames = 0
        THEN ai_finish(ed, Request("before", ed, frames, "next", <<base>>,
                                   out, pos), out, pos)
        ELSE IF pos = 0
        THEN ai_finish(ed, Request("before", ed, frames, "between",
                                   <<base, frames[pos + 1]>>, out, pos),
                       out, pos)
        ELSE IF pos + 1 > num_frames      \* frames[pos]: IndexError
        THEN [ed EXCEPT !.exc = TRUE]
        ELSE ai_finish(ed, Request("before", ed, frames, "between",
                                   <<frames[pos], frames[pos + 1]>>, out, pos),
                       out, pos)

\* a plausible slip: the last frame is paired with itself, not with the base
add_ai_generated_frame_after_no_wrap(ed, out) ==
    LET current_index == IF ed.frame_cur # 0 THEN ed.frame_cur - 1 ELSE 0
        anim_name == CurAnim(ed)
        frames == get_animation_frames(ed.sd, anim_name)
        num_frames == Len(frames)
        base == ed.sd.base_image
        insertion_index == IF num_frames = 0 THEN 0 ELSE current_index + 1
    IN  IF out.kind = "raise_setup" THEN [ed EXCEPT !.exc = TRUE]
        ELSE IF ed.anim_cur = 0 THEN ed
        ELSE IF num_frames = 0
        THEN ai_finish(ed, Request("after", ed, frames, "next", <<base>>,
                                   out, insertion_index), out, insertion_index)
        ELSE IF current_index = num_frames - 1
        THEN ai_finish(ed, Request("after", ed, frames, "between",
                                   <<frames[current_index + 1],
                                     frames[current_index + 1]>>,
                                   out, insertion_index),
                       out, insertion_index)
        ELSE IF current_index + 2 > num_frames
        THEN [ed EXCEPT !.exc = TRUE]
        ELSE ai_finish(ed, Request("after", ed, frames, "between",
                                   <<frames[current_index + 1],
                                     frames[current_index + 2]>>,
                                   out, insertion_index),
                       out, insertion_index)

add_ai_generated_frame_after(ed, out) ==
    LET current_index == IF ed.frame_cur # 0 THEN ed.frame_cur - 1 ELSE 0
        anim_name == CurAnim(ed)
        frames == get_animation_frames(ed.sd, anim_name)
        num_frames == Len(frames)
        base == ed.sd.base_image
        insertion_index == IF num_frames = 0 THEN 0 ELSE current_index + 1
    IN  IF out.kind = "raise_setup" THEN [ed EXCEPT !.exc = TRUE]
        ELSE IF ed.anim_cur = 0 THEN ed
        ELSE IF num_frames = 0
        THEN ai_finish(ed, Request("after", ed, frames, "next", <<base>>,
                                   out, insertion_index), out, insertion_index)
        ELSE IF current_index = num_frames - 1
        THEN ai_finish(ed, Request("after", ed, frames, "between",
                                   <<frames[current_index + 1], base>>,
                                   out, insertion_index),
                       out, insertion_index)
        ELSE IF current_index + 2 > num_frames   \* frames[..]: IndexError
        THEN [ed EXCEPT !.exc = TRUE]
        ELSE ai_finish(ed, Request("after", ed, frames, "between",
                                   <<frames[current_index + 1],
                                     frames[current_index + 2]>>,
                                   out, insertion_index),
                       out, insertion_index)

\* ---- animations
\* for _ in range(frame_count): self._add_ai_generated_frame_after(); an
\* exception ends the loop and the handler
RECURSIVE ai_frames_loop(_, _)
ai_frames_loop(ed, outs) ==
    IF outs = <<>> \/ ed.exc THEN ed
    ELSE ai_frames_loop(add_ai_generated_frame_after(ed, outs[1]), Tail(outs))

\* a plausible slip: the name is not looked up in the animations
add_animation_no_duplicate_check(ed, accepted, raw, outs) ==
    LET anim_name == strip(raw)
        e1 == [ed EXCEPT
                 !.sd = [@ EXCEPT !.animations = DictSet(@, anim_name, <<>>)],
                 !.anim_items = Append(@, anim_name)]
        e2 == on_current_anim_changed(e1, Len(e1.anim_items))
    IN  IF ed.cfp = "" THEN ed
        ELSE IF ~accepted \/ raw = "" THEN ed
        ELSE IF anim_name = "" THEN ed
        ELSE ai_frames_loop(save(e2), outs)

\* _add_animation: the dialog was accepted or not, raw is the text typed,
\* Len(outs) the value of the spin box
add_animation(ed, accepted, raw, outs) ==
    LET anim_name == strip(raw)
        e1 == [ed EXCEPT
                 !.sd = [@ EXCEPT !.animations = DictSet(@, anim_name, <<>>)],
                 !.anim_items = Append(@, anim_name)]
        e2 == on_current_anim_changed(e1, Len(e1.anim_items))
    IN  IF ed.cfp = "" THEN ed
        ELSE IF ~accepted \/ raw = "" THEN ed
        ELSE IF anim_name = "" THEN ed
        ELSE IF anim_name \in Keys(ed.sd.animations) THEN ed
        ELSE ai_frames_loop(save(e2), outs)

\* QListWidget.takeItem(row) of the current row (1-based) out of count rows:
\* the next item becomes current, else the previous one
RowAfterTake(row, count) ==
    IF count = 1 THEN 0 ELSE IF row < count THEN row ELSE row - 1

\* _remove_animation: the confirmation box was answered Yes or No
remove_animation(ed, yes) ==
    LET anim_name == CurAnim(ed)
        row == ed.anim_cur
        e1 == [ed EXCEPT
                 !.sd = [@ EXCEPT !.animations =
                            IF anim_name \in Keys(@) THEN DictDel(@, anim_name)
                            ELSE @],
                 !.anim_items = ListRemove(@, row - 1)]
        e2 == on_current_anim_changed(e1, RowAfterTake(row, Len(ed.anim_items)))
    IN  IF ed.anim_cur = 0 \/ ed.cfp = "" THEN ed
        ELSE IF ~yes THEN ed
        ELSE save(e2)

\* a plausible slip: the item leaves the list widget, the frame stays in
\* the animation
remove_frame_keeps_data(ed) ==
    LET anim_name == CurAnim(ed)
        text == ed.frame_items[ed.frame_cur]
        current_frames == get_animation_frames(ed.sd, anim_name)
        Keep(f) == f # text
        new_frames == SelectSeq(current_frames, Keep)
        removed_count == Len(current_frames) - Len(new_frames)
        e1 == [ed EXCEPT
                 !.frame_items = ListRemove(@, ed.frame_cur - 1),
                 !.frame_cur = RowAfterTake(ed.frame_cur, Len(ed.frame_items))]
    IN  IF ed.anim_cur = 0 \/ ed.frame_cur = 0 \/ ed.cfp = "" THEN ed
        ELSE IF anim_name \notin Keys(ed.sd.animations) THEN ed
        ELSE IF removed_count > 0 THEN save(e1)
        ELSE ed

\* ---- frames
\* _remove_frame; the list is in single-selection mode, so selectedItems()
\* is the current item
remove_frame(ed) ==
    LET anim_name == CurAnim(ed)
        text == ed.frame_items[ed.frame_cur]
        current_frames == get_animation_frames(ed.sd, anim_name)
        Keep(f) == f # text
        new_frames == SelectSeq(current_frames, Keep)
        removed_count == Len(current_frames) - Len(new_frames)
        e1 == [ed EXCEPT
                 !.sd = [@ EXCEPT !.animations =
                            DictSet(@, anim_name, new_frames)],
                 !.frame_items = ListRemove(@, ed.frame_cur - 1),
                 !.frame_cur = RowAfterTake(ed.frame_cur, Len(ed.frame_items))]
    IN  IF ed.anim_cur = 0 \/ ed.frame_cur = 0 \/ ed.cfp = "" THEN ed
        ELSE IF anim_name \notin Keys(ed.sd.animations) THEN ed
        ELSE IF removed_count > 0 THEN save(e1)
        ELSE ed

\* frames.insert(j, frames.pop(i)), 0-based
ListMove(seq, i, j) == ListInsert(ListRemove(seq, i), j, seq[i + 1])

\* a plausible slip: the boundary test does not stop the commit
move_frame_up_commits_at_top(ed) ==
    LET anim_name == CurAnim(ed)
        current_row == ed.frame_cur - 1
        frames == get_animation_frames(ed.sd, anim_name)
        new_row == current_row - 1
        e1 == [ed EXCEPT
                 !.sd = [@ EXCEPT !.animations =
                     DictSet(@, anim_name, ListMove(frames, current_row, new_row))],
                 !.frame_items = ListMove(@, current_row, new_row),
                 !.frame_cur = new_row + 1]
    IN  IF ed.anim_cur = 0 \/ ed.frame_cur = 0 \/ ed.cfp = "" THEN ed
        ELSE IF current_row > 0 /\ Len(frames) > current_row THEN save(e1)
        ELSE save(ed)

move_frame_up(ed) ==
    LET anim_name == CurAnim(ed)
        current_row == ed.frame_cur - 1
        frames == get_animation_frames(ed.sd, anim_name)
        new_row == current_row - 1
        e1 == [ed EXCEPT
                 !.sd = [@ EXCEPT !.animations =
                     DictSet(@, anim_name, ListMove(frames, current_row, new_row))],
                 !.frame_items = ListMove(@, current_row, new_row),
                 !.frame_cur = new_row + 1]
    IN  IF ed.anim_cur = 0 \/ ed.frame_cur = 0 \/ ed.cfp = "" THEN ed
        ELSE IF current_row > 0 /\ Len(frames) > current_row THEN save(e1)
        ELSE ed

move_frame_down(ed) ==
    LET anim_name == CurAnim(ed)
        current_row == ed.frame_cur - 1
        frame_count == Len(ed.frame_items)
        frames == get_animation_frames(ed.sd, anim_name)
        new_row == current_row + 1
        e1 == [ed EXCEPT
                 !.sd = [@ EXCEPT !.animations =
                     DictSet(@, anim_name, ListMove(frames, current_row, new_row))],
                 !.frame_items = ListMove(@, current_row, new_row),
                 !.frame_cur = new_row + 1]
    IN  IF ed.anim_cur = 0 \/ ed.frame_cur = 0 \/ ed.cfp = "" THEN ed
        ELSE IF current_row < frame_count - 1 /\ Len(frames) > current_row + 1
        THEN save(e1)
        ELSE ed

\* ---- base image
\* ImageLoaderWidget._select_image of a file inside the sprite's directory,
\* then _on_base_image_selected with the relative path it emits
on_base_image_selected(ed, fpath) ==
    LET base_dir == BaseDirOf(ed.cfp)
        rel == relpath(fpath, base_dir)
        path == IF IsAbs(rel) THEN rel ELSE abspath(join(base_dir, rel))
        e1 == [ed EXCEPT !.loader = load_image(base_dir, rel),
                         !.sd = [@ EXCEPT !.base_image = path]]
    IN  IF rel = NoPath THEN ed ELSE save(e1)

\* the remove button: clear_image emits "", which the editor ignores
on_remove_button_clicked(ed) == [ed EXCEPT !.loader = NoPath]

\* _on_base_image_action_clicked; has_desc: the description is not empty
on_base_image_action_clicked(ed, has_desc, out) ==
    LET e1 == [ed EXCEPT !.sd = [@ EXCEPT !.base_image = out.path],
                         !.loader = load_image(BaseDirOf(ed.cfp), out.path),
                         !.files = @ \cup {out.path}]
    IN  IF ~has_desc THEN ed
        ELSE CASE out.kind \in {"raise", "raise_setup"} -> [ed EXCEPT !.exc = TRUE]
               [] out.kind = "none" -> ed
               [] OTHER -> save(e1)

\* name_edit.textChanged -> save()
on_name_changed(ed, text) == save([ed EXCEPT !.name_edit = text])

\* ---------------------------------------------------------------- variables
VARIABLES
    \* SpriteEditorView
    current_file_path,  \* "" is None
    sprite_data,        \* NoSprite is None
    name_edit,          \* the name field of the form
    loader_path,        \* base_image_loader._absolute_path
    anim_items,         \* anim_list_widget: the item texts, in row order
    anim_cur,           \* its current row, 1-based; 0: no current item
    frame_items,        \* frame_list_widget: the item texts, in row order
    frame_cur,          \* its current row, 1-based; 0: no current item
    undo_stack,         \* _undo_redo_manager._undo_stack
    redo_stack,         \* _undo_redo_manager._redo_stack
    \* the file system
    disk,               \* the JSON content of each .sprite file
    files,              \* the files that exist in the sprite's directory
    \* history of the last handler, kept for the properties
    nops,               \* handlers run so far
    last,               \* what the last handler was and what it was given
    commits,            \* the save() calls of the last handler
    calls,              \* the generation requests of the last handler
    inserts,            \* the _insert_frames_at_index calls of the last handler
    escaped,            \* an exception left the last handler
    hist,               \* the documents d0..dk of the current run of edits
    phase,              \* "edit", "undo", "redo" or "other"
    nundo,              \* undo() calls since the run of edits
    nredo,              \* redo() calls since those undo() calls
    \* SpecMgr: the last call made on the manager, and the calls of an
    \* inverse-law scenario (save, save, undo, undo, redo, redo) in progress
    mgr_last,
    mgr_run,
    \* SpecMgr: the call made before the last one
    mgr_prev,
    \* SpecExport: the document exported and what the export wrote
    exp_doc,
    exp_out,
    \* SpecRound: the document serialized and what the round trip gave
    rt_doc,
    rt_out,
    \* EditorWidget: its own current_file_path and the widget its stacked
    \* layout shows
    ew_current_file_path,
    ew_widget,
    \* SpecSage: the Reference Images of the project file, the _absolute_path
    \* of the four image loaders of the sage editor, what save() wrote
    sg_file,
    sg_loaders,
    sg_out,
    \* SpecBusy: one call_with_busy in progress, the caller's thread and the
    \* worker's thread
    busy

vars == <<current_file_path, sprite_data, name_edit, loader_path, anim_items,
          anim_cur, frame_items, frame_cur, undo_stack, redo_stack, disk,
          files, nops, last, commits, calls, inserts, escaped, hist, phase,
          nundo, nredo, mgr_last, mgr_run, mgr_prev, exp_doc,
          exp_out, rt_doc, rt_out, ew_current_file_path, ew_widget,
          sg_file, sg_loaders, sg_out, busy>>

edvars == <<current_file_path, sprite_data, name_edit, loader_path,
            anim_items, anim_cur, frame_items, frame_cur, disk, files, nops,
            last, commits, calls, inserts, escaped, hist, phase, nundo, nredo>>
stacks == <<undo_stack, redo_stack>>
mgrghost == <<mgr_last, mgr_run, mgr_prev>>
expvars == <<exp_doc, exp_out>>
rtvars == <<rt_doc, rt_out>>
ewvars == <<ew_current_file_path, ew_widget>>
sgvars == <<sg_file, sg_loaders, sg_out>>
\* the variables of the specifications of one component on its own
sidevars == <<sgvars, busy>>

\* ------------------------------------------------------------------ SpecMgr
\* One UndoRedoManager[SpriteFile], called in any order with any state.
MgrStates == {SpriteFile("n0", NoPath, <<>>),
              SpriteFile("n1", NoPath, <<>>),
              SpriteFile("n2", NoPath, <<>>)}

EditorIdle ==
    /\ current_file_path = ""
    /\ sprite_data = NoSprite
    /\ name_edit = ""
    /\ loader_path = NoPath
    /\ anim_items = <<>>
    /\ anim_cur = 0
    /\ frame_items = <<>>
    /\ frame_cur = 0
    /\ disk = <<>>
    /\ files = {}
    /\ nops = 0
    /\ last = [op |-> "init"]
    /\ commits = <<>>
    /\ calls = <<>>
    /\ inserts = <<>>
    /\ escaped = FALSE
    /\ hist = <<>>
    /\ phase = "other"
    /\ nundo = 0
    /\ nredo = 0

MgrIdle ==
    /\ mgr_last = [op |-> "init"]
    /\ mgr_run = <<>>
    /\ mgr_prev = [op |-> "init"]

ExportIdle ==
    /\ exp_doc = NoSprite
    /\ exp_out = [kind |-> "none"]

RoundIdle ==
    /\ rt_doc = NoSprite
    /\ rt_out = [kind |-> "none"]

\* EditorWidget.__init__: no file, the first widget of the stacked layout
EwIdle ==
    /\ ew_current_file_path = ""
    /\ ew_widget = "plain_text_editor"

\* SageEditorView.__init__: no project file loaded
SageIdle ==
    /\ sg_file = <<>>
    /\ sg_loaders = <<>>
    /\ sg_out = [kind |-> "none"]

\* no call_with_busy in progress
BusyIdle == busy = [pc |-> "none"]

SideIdle == SageIdle /\ BusyIdle

Manager == [undo |-> undo_stack, redo |-> redo_stack]

\* a call as the history variables record it: what was called with what, what
\* it returned, and the stacks it found
Call(op, arg, ret) ==
    [op |-> op, arg |-> arg, ret |-> ret,
     undo_before |-> undo_stack, redo_before |-> redo_stack]

Fresh(c) == c.undo_before = <<>> /\ c.redo_before = <<>>

\* run is the beginning of an inverse-law scenario: on empty stacks,
\* save_undo_state(s0), save_undo_state(s1), perform_undo(s2),
\* perform_undo(s1), perform_redo(), perform_redo(), s0, s1, s2 distinct
LawPrefix(run) ==
    /\ Len(run) <= 6
    /\ Len(run) >= 1 => Fresh(run[1]) /\ run[1].op = "save_undo_state"
    /\ Len(run) >= 2 => /\ run[2].op = "save_undo_state"
                        /\ run[2].arg # run[1].arg
    /\ Len(run) >= 3 => /\ run[3].op = "perform_undo"
                        /\ run[3].arg # run[1].arg
                        /\ run[3].arg # run[2].arg
    /\ Len(run) >= 4 => /\ run[4].op = "perform_undo"
                        /\ run[4].arg = run[2].arg
    /\ Len(run) >= 5 => run[5].op = "perform_redo"
    /\ Len(run) >= 6 => run[6].op = "perform_redo"

Track(c) ==
    /\ mgr_last' = c
    /\ mgr_prev' = mgr_last
    /\ mgr_run' = IF LawPrefix(Append(mgr_run, c)) THEN Append(mgr_run, c)
                  ELSE IF LawPrefix(<<c>>) THEN <<c>>
                  ELSE <<>>

InitMgr ==
    /\ undo_stack = <<>>
    /\ redo_stack = <<>>
    /\ MgrIdle
    /\ EditorIdle
    /\ ExportIdle
    /\ RoundIdle
    /\ EwIdle
    /\ SideIdle

SaveUndoState(state) ==
    /\ Len(undo_stack) < MaxStack
    /\ LET m == save_undo_state(Manager, state)
       IN  /\ undo_stack' = m.undo
           /\ redo_stack' = m.redo
    /\ Track(Call("save_undo_state", state, NoSprite))
    /\ UNCHANGED <<edvars, expvars, rtvars, ewvars, sidevars>>

PerformUndo(current_state) ==
    /\ Len(redo_stack) < MaxStack
    /\ LET r == perform_undo(Manager, current_state)
       IN  /\ undo_stack' = r.m.undo
           /\ redo_stack' = r.m.redo
           /\ Track(Call("perform_undo", current_state, r.ret))
    /\ UNCHANGED <<edvars, expvars, rtvars, ewvars, sidevars>>

PerformRedo ==
    /\ Len(undo_stack) < MaxStack
    /\ LET r == perform_redo(Manager)
       IN  /\ undo_stack' = r.m.undo
           /\ redo_stack' = r.m.redo
           /\ Track(Call("perform_redo", NoSprite, r.ret))
    /\ UNCHANGED <<edvars, expvars, rtvars, ewvars, sidevars>>

Clear ==
    /\ LET m == clear(Manager)
       IN  /\ undo_stack' = m.undo
           /\ redo_stack' = m.redo
    /\ Track(Call("clear", NoSprite, NoSprite))
    /\ UNCHANGED <<edvars, expvars, rtvars, ewvars, sidevars>>

NextMgr ==
    \/ \E s \in MgrStates : SaveUndoState(s)
    \/ \E s \in MgrStates : PerformUndo(s)
    \/ PerformRedo
    \/ Clear

SpecMgr == InitMgr /\ [][NextMgr]_vars

\* ------------------------------------------------------------- claims C3, C4
\* C3: on a manager with empty stacks, after save_undo_state(s0) and
\* save_undo_state(s1) with s0, s1, s2 pairwise distinct, perform_undo(s2)
\* returns s1, perform_undo(s1) returns s0, and two perform_redo() calls then
\* return s1 and s2.
C3_UndoRedoInverseLaw ==
    /\ Len(mgr_run) >= 3 => SpriteEq(mgr_run[3].ret, mgr_run[2].arg)
    /\ Len(mgr_run) >= 4 => SpriteEq(mgr_run[4].ret, mgr_run[1].arg)
    /\ Len(mgr_run) >= 5 => SpriteEq(mgr_run[5].ret, mgr_run[2].arg)
    /\ Len(mgr_run) >= 6 => SpriteEq(mgr_run[6].ret, mgr_run[3].arg)

C3_Witness == Len(mgr_run) = 6

\* C4: after every call to save_undo_state the redo stack is empty.
C4_SaveClearsRedo ==
    mgr_last.op = "save_undo_state" => redo_stack = <<>>

\* --------------------------------------------------------------------- Spec
\* One SpriteEditorView on a project with one sprite file, driven by the user.
HeroFile == "hero.sprite"

F1 == InProj("f1")
F2 == InProj("f2")
F3 == InProj("f3")
F4 == InProj("f4")
X == InProj("x")
Y == InProj("y")

\* a new sprite, and one whose animation "b" was added before "a"
DocEmpty == SpriteFile("hero", NoPath, <<>>)
DocWalk == SpriteFile("hero", X, <<Animation("b", <<F1, F2, F3>>),
                                    Animation("a", <<F2>>)>>)

\* what the user can type and pick
NameTexts == {"hero", "knight"}
RawNames == {"", " ", "a", "b", " b", "A"}
FrameChoices == {<<>>, <<F1>>, <<F2, F3, F4, F3>>,
                 <<InExt("f1"), F4>>, <<InExt("gone"), F3, F4>>}
BaseChoices == {X, Y}

GenCount(fs) == Cardinality({p \in fs : basename(p)[1] = "gen"})
\* a request that succeeds writes a new file, or (two results within the same
\* second) the file of an earlier result again
AiResults(fs) ==
    {NoResult, Raises, SetupRaises, Ok(Gen(GenCount(fs) + 1))}
        \cup {Ok(Gen(k)) : k \in 1..GenCount(fs)}

\* the results of the frame_count requests of Add Animation: only the last
\* one may fail
AiRuns(fs) ==
    LET g == GenCount(fs)
        Oks(n) == [i \in 1..n |-> Ok(Gen(g + i))]
    IN  {Oks(n) : n \in 0..MaxAiFrames}
          \cup {Append(Oks(n - 1), f) :
                  n \in 1..MaxAiFrames, f \in {NoResult, Raises, SetupRaises}}

Ed ==
    [cfp |-> current_file_path, sd |-> sprite_data, name_edit |-> name_edit,
     loader |-> loader_path, anim_items |-> anim_items, anim_cur |-> anim_cur,
     frame_items |-> frame_items, frame_cur |-> frame_cur, mgr |-> Manager,
     disk |-> disk, files |-> files, pre |-> sprite_data, commits |-> <<>>,
     calls |-> <<>>, inserts |-> <<>>, exc |-> FALSE]

\* the editor after a handler that left it as e
Becomes(e) ==
    /\ current_file_path' = e.cfp
    /\ sprite_data' = e.sd
    /\ name_edit' = e.name_edit
    /\ loader_path' = e.loader
    /\ anim_items' = e.anim_items
    /\ anim_cur' = e.anim_cur
    /\ frame_items' = e.frame_items
    /\ frame_cur' = e.frame_cur
    /\ undo_stack' = e.mgr.undo
    /\ redo_stack' = e.mgr.redo
    /\ disk' = e.disk
    /\ files' = e.files

\* the run of edits, undos and redos in progress: an edit that committed
\* extends the run of edits (or starts one at the document it found), undo()
\* and redo() calls are counted while they follow it, anything else ends it
Posts(e) == [i \in 1..Len(e.commits) |-> e.commits[i].post]

Run(e, kind) ==
    IF kind = "edit" /\ e.commits # <<>>
    THEN /\ hist' = (IF phase = "edit" THEN hist ELSE <<sprite_data>>) \o Posts(e)
         /\ phase' = "edit"
         /\ nundo' = 0
         /\ nredo' = 0
    ELSE IF kind = "undo" /\ phase \in {"edit", "undo"} /\ nundo + 1 < Len(hist)
    THEN /\ phase' = "undo"
         /\ nundo' = nundo + 1
         /\ UNCHANGED <<hist, nredo>>
    ELSE IF kind = "redo" /\ phase \in {"undo", "redo"} /\ nredo < nundo
    THEN /\ phase' = "redo"
         /\ nredo' = nredo + 1
         /\ UNCHANGED <<hist, nundo>>
    ELSE /\ phase' = "other"
         /\ hist' = <<>>
         /\ nundo' = 0
         /\ nredo' = 0

HandlerCore(bound, what, kind, e) ==
    /\ nops < bound
    /\ nops' = nops + 1
    /\ Becomes(e)
    /\ last' = what
    /\ commits' = e.commits
    /\ calls' = e.calls
    /\ inserts' = e.inserts
    /\ escaped' = e.exc
    /\ Run(e, kind)
    /\ UNCHANGED <<mgrghost, expvars, rtvars, sidevars>>

\* a handler of the sprite editor: the EditorWidget around it stays as it is
HandlerN(bound, what, kind, e) ==
    /\ HandlerCore(bound, what, kind, e)
    /\ UNCHANGED ewvars

HandlerAs(what, kind, e) == HandlerN(MaxOps, what, kind, e)

Handler(op, kind, e) == HandlerAs([op |-> op], kind, e)

Init ==
    /\ current_file_path = ""
    /\ sprite_data = NoSprite
    /\ name_edit = ""
    /\ loader_path = NoPath
    /\ anim_items = <<>>
    /\ anim_cur = 0
    /\ frame_items = <<>>
    /\ frame_cur = 0
    /\ undo_stack = <<>>
    /\ redo_stack = <<>>
    /\ \E d \in {DocEmpty, DocWalk} :
           disk = [fp \in {HeroFile} |-> to_dict(d, SageDir)]
    /\ files = {F1, F2, F3, F4, X, Y}
    /\ nops = 0
    /\ last = [op |-> "init"]
    /\ commits = <<>>
    /\ calls = <<>>
    /\ inserts = <<>>
    /\ escaped = FALSE
    /\ hist = <<>>
    /\ phase = "other"
    /\ nundo = 0
    /\ nredo = 0
    /\ MgrIdle
    /\ ExportIdle
    /\ RoundIdle
    /\ EwIdle
    /\ SideIdle

\* EditorWidget.load_file of the sprite file
LoadSpriteData == Handler("load_sprite_data", "other", load_sprite_data(Ed, HeroFile))

\* the user clicks a row of a list; no handler of the editor commits
SelectAnimation(row) ==
    /\ row \in 1..Len(anim_items)
    /\ row # anim_cur
    /\ Becomes(on_current_anim_changed(Ed, row))
    /\ UNCHANGED <<nops, last, commits, calls, inserts, escaped, hist, phase,
                   nundo, nredo, mgrghost, expvars, rtvars, ewvars, sidevars>>

SelectFrame(row) ==
    /\ row \in 1..Len(frame_items)
    /\ row # frame_cur
    /\ Becomes([Ed EXCEPT !.frame_cur = row])
    /\ UNCHANGED <<nops, last, commits, calls, inserts, escaped, hist, phase,
                   nundo, nredo, mgrghost, expvars, rtvars, ewvars, sidevars>>

NameChanged(text) ==
    /\ sprite_data # NoSprite
    /\ text # name_edit
    /\ Handler("name_changed", "edit", on_name_changed(Ed, text))

BaseImageSelected(fpath) ==
    /\ sprite_data # NoSprite
    /\ Handler("base_image_selected", "edit", on_base_image_selected(Ed, fpath))

BaseImageRemoved ==
    /\ sprite_data # NoSprite
    /\ Handler("base_image_removed", "other", on_remove_button_clicked(Ed))

BaseImageAction(has_desc, out) ==
    /\ sprite_data # NoSprite
    /\ Handler("base_image_action", "edit",
               on_base_image_action_clicked(Ed, has_desc, out))

\* last keeps what the dialog returned: whether it was accepted, and the text
AddAnimation(accepted, raw, outs) ==
    HandlerAs([op |-> "add_animation", accepted |-> accepted,
               text |-> IF accepted THEN raw ELSE ""],
              "edit", add_animation(Ed, accepted, raw, outs))

RemoveAnimation(yes) ==
    Handler("remove_animation", "edit", remove_animation(Ed, yes))

\* the Add Frame buttons are enabled while an animation is current
AddFrameBefore(paths) ==
    /\ anim_cur # 0
    /\ Handler("add_frame_before", "edit", add_frame_before(Ed, paths))

AddFrameAfter(paths) ==
    /\ anim_cur # 0
    /\ Handler("add_frame_after", "edit", add_frame_after(Ed, paths))

AddAiFrameBefore(out) ==
    /\ sprite_data # NoSprite
    /\ Handler("add_ai_generated_frame_before", "edit",
               add_ai_generated_frame_before(Ed, out))

AddAiFrameAfter(out) ==
    /\ sprite_data # NoSprite
    /\ Handler("add_ai_generated_frame_after", "edit",
               add_ai_generated_frame_after(Ed, out))

RemoveFrame == Handler("remove_frame", "edit", remove_frame(Ed))

MoveFrameUp == Handler("move_frame_up", "edit", move_frame_up(Ed))

MoveFrameDown == Handler("move_frame_down", "edit", move_frame_down(Ed))

Undo ==
    /\ sprite_data # NoSprite
    /\ Handler("undo", "undo", undo(Ed))

Redo ==
    /\ sprite_data # NoSprite
    /\ Handler("redo", "redo", redo(Ed))

Next ==
    \/ LoadSpriteData
    \/ \E row \in 1..3 : SelectAnimation(row)
    \/ \E row \in 1..6 : SelectFrame(row)
    \/ \E text \in NameTexts : NameChanged(text)
    \/ \E fpath \in BaseChoices : BaseImageSelected(fpath)
    \/ BaseImageRemoved
    \/ \E has_desc \in BOOLEAN, out \in AiResults(files) :
           BaseImageAction(has_desc, out)
    \/ \E accepted \in BOOLEAN, raw \in RawNames, outs \in AiRuns(files) :
           AddAnimation(accepted, raw, outs)
    \/ \E yes \in BOOLEAN : RemoveAnimation(yes)
    \/ \E paths \in FrameChoices : AddFrameBefore(paths)
    \/ \E paths \in FrameChoices : AddFrameAfter(paths)
    \/ \E out \in AiResults(files) : AddAiFrameBefore(out)
    \/ \E out \in AiResults(files) : AddAiFrameAfter(out)
    \/ RemoveFrame
    \/ MoveFrameUp
    \/ MoveFrameDown
    \/ Undo
    \/ Redo

Spec == Init /\ [][Next]_vars

\* --------------------------------------------------------------- SpecExport
\* One GodotSpriteExporter.export() of a sprite document read from its file.

\* int.bit_length()
RECURSIVE bit_length(_)
bit_length(m) == IF m = 0 THEN 0 ELSE 1 + bit_length(m \div 2)

\* 1 << (n - 1).bit_length()
next_power_of_two(n) == IF n <= 0 THEN 1 ELSE 2 ^ bit_length(n - 1)

RECURSIVE Flatten(_)
Flatten(anims) ==
    IF anims = <<>> THEN <<>> ELSE anims[1].frames \o Flatten(Tail(anims))

\* for animation in self.animations.values(): the dict's own order
get_all_frame_paths(doc) == Flatten(doc.sprite_file.animations)

\* the while True loop testing the columns alone
RECURSIVE grow_sheet_ignores_rows(_, _, _, _)
grow_sheet_ignores_rows(sheet_size, width, height, num_frames) ==
    LET cols == sheet_size \div width
    IN  IF cols * cols >= num_frames THEN sheet_size
        ELSE grow_sheet_ignores_rows(sheet_size * 2, width, height, num_frames)

\* the while True loop
RECURSIVE grow_sheet(_, _, _, _)
grow_sheet(sheet_size, width, height, num_frames) ==
    LET cols == sheet_size \div width
        rows == sheet_size \div height
    IN  IF cols * rows >= num_frames THEN sheet_size
        ELSE grow_sheet(sheet_size * 2, width, height, num_frames)

\* a plausible slip: the starting side is not rounded up to a power of two
determine_sheet_size_no_rounding(doc, num_frames) ==
    LET min_side == IF doc.width > doc.height THEN doc.width ELSE doc.height
    IN  grow_sheet(min_side, doc.width, doc.height, num_frames)

determine_sheet_size(doc, num_frames) ==
    LET min_side == IF doc.width > doc.height THEN doc.width ELSE doc.height
    IN  grow_sheet(next_power_of_two(min_side), doc.width, doc.height, num_frames)

\* create_spritesheet: where each frame's image is pasted
create_spritesheet(doc) ==
    LET frames == get_all_frame_paths(doc)
        sheet_size == determine_sheet_size(doc, Len(frames))
        cols == sheet_size \div doc.width
    IN  [i \in 1..Len(frames) |->
           [x |-> ((i - 1) % cols) * doc.width,
            y |-> ((i - 1) \div cols) * doc.height,
            image |-> frames[i]]]

\* the "frames" arrays of the animation list: animations in sorted(keys)
\* order, each frame taking the next of sub_ids
RECURSIVE animation_list(_, _, _, _)
animation_list(doc, names, sub_ids, frame_idx) ==
    IF names = <<>> THEN <<>>
    ELSE LET frames == get_animation_frames(doc.sprite_file, names[1])
         IN  <<[name |-> names[1],
                frames |-> [k \in 1..Len(frames) |-> sub_ids[frame_idx + k]]]>>
               \o animation_list(doc, Tail(names), sub_ids,
                                 frame_idx + Len(frames))

\* export_tres with the sub-resource ids uuid4 gave
export_tres(doc, sub_ids) ==
    LET frame_count == Len(get_all_frame_paths(doc))
        w == doc.width
        h == doc.height
        sheet_size == determine_sheet_size(doc, frame_count)
        cols == sheet_size \div w
    IN  [kind |-> "tres",
         sheet_size |-> sheet_size,
         pasted |-> create_spritesheet(doc),
         regions |-> [i \in 1..frame_count |->
                        [id |-> sub_ids[i],
                         x |-> ((i - 1) % cols) * w,
                         y |-> ((i - 1) \div cols) * h,
                         w |-> w, h |-> h]],
         animations |-> animation_list(doc,
                          sorted(KeySeq(doc.sprite_file.animations)), sub_ids, 0)]

\* export_sprite2d: Path(None) raises when there is no base image
export_sprite2d(doc) ==
    IF doc.sprite_file.base_image = NoPath THEN [kind |-> "raised"]
    ELSE [kind |-> "sprite2d",
          texture |-> basename(doc.sprite_file.base_image)]

export(doc, sub_ids) ==
    IF Len(get_all_frame_paths(doc)) = 0 THEN export_sprite2d(doc)
    ELSE export_tres(doc, sub_ids)

\* the largest frame width and height of a document exported
MaxCell == 3

ExportNames == {"a", "b"}
ExportFrames == {<<>>, <<F1>>, <<F2, F3>>}

\* the animations mappings: no, one or two animations, in either order
ExportAnimations ==
    {<<>>}
      \cup {<<Animation(n, fr)>> : n \in ExportNames, fr \in ExportFrames}
      \cup {<<Animation(ns[1], fr1), Animation(ns[2], fr2)>> :
              ns \in {<<"a", "b">>, <<"b", "a">>},
              fr1 \in ExportFrames, fr2 \in ExportFrames}

InitExport ==
    /\ undo_stack = <<>>
    /\ redo_stack = <<>>
    /\ MgrIdle
    /\ EditorIdle
    /\ \E anims \in ExportAnimations, b \in {NoPath, X},
          w \in 1..MaxCell, h \in 1..MaxCell :
           exp_doc = [sprite_file |-> SpriteFile("hero", b, anims),
                      width |-> w, height |-> h]
    /\ exp_out = [kind |-> "none"]
    /\ RoundIdle
    /\ EwIdle
    /\ SideIdle

\* uuid4().hex[:6]: any ids, equal ones included
Export(sub_ids) ==
    /\ exp_out.kind = "none"
    /\ exp_out' = export(exp_doc, sub_ids)
    /\ UNCHANGED <<exp_doc, edvars, stacks, mgrghost, rtvars, ewvars, sidevars>>

NextExport ==
    \E sub_ids \in [1..Len(get_all_frame_paths(exp_doc)) ->
                      1..Len(get_all_frame_paths(exp_doc))] :
        Export(sub_ids)

SpecExport == InitExport /\ [][NextExport]_vars

\* ---------------------------------------------------------------- claim C5
IdsDistinct(out) ==
    \A i, j \in DOMAIN out.regions :
        out.regions[i].id = out.regions[j].id => i = j

\* the image the packer pasted into the cell a sub-resource id refers to
ImagesAt(out, id) ==
    {p.image : p \in {q \in {out.pasted[i] : i \in DOMAIN out.pasted} :
                        \E r \in {out.regions[i] : i \in DOMAIN out.regions} :
                            r.id = id /\ r.x = q.x /\ r.y = q.y}}

\* C5: in an export of a sprite with at least one frame, the sub-region the
\* k-th frame entry of animation a refers to is the grid cell into which the
\* packer pasted the image a.frames[k], for every animation a and position k.
C5_ExportOrderMatchesPacker ==
    (exp_out.kind = "tres" /\ IdsDistinct(exp_out)) =>
        \A e \in {exp_out.animations[i] : i \in DOMAIN exp_out.animations} :
            \A k \in DOMAIN e.frames :
                ImagesAt(exp_out, e.frames[k])
                    = {get_animation_frames(exp_doc.sprite_file, e.name)[k]}

\* ----------------------------------------------------- claims C1, C2, C6..C10
Range(seq) == {seq[i] : i \in 1..Len(seq)}

StructuralEdits ==
    {"add_animation", "remove_animation", "add_frame_before", "add_frame_after",
     "add_ai_generated_frame_before", "add_ai_generated_frame_after",
     "remove_frame", "move_frame_up", "move_frame_down",
     "base_image_selected", "base_image_action"}

AiFrameOps == {"add_ai_generated_frame_before", "add_ai_generated_frame_after"}

\* C1: for every committed edit of the open sprite (add or remove animation,
\* insert, remove or move frames, set base image), the state handed to
\* save_undo_state equals the whole SpriteFile as it was before the edit.
C1_SnapshotIsPreEditState ==
    last.op \in StructuralEdits =>
        \A c \in Range(commits) : SpriteEq(c.arg, c.pre)

\* the document in memory and the one in the file both equal d
MemoryAndFileAre(d) ==
    /\ SpriteEq(sprite_data, d)
    /\ SpriteEq(from_dict(disk[current_file_path], SageDir), d)

\* C2: after k >= 1 committed edits d0 -> ... -> dk (k below the capacity,
\* nothing else in between), j undo() calls (1 <= j <= k) leave the document
\* in memory and the persisted file equal to d(k-j), and j redo() calls after
\* them bring both back to dk.
C2_UndoRedoRestoresEdits ==
    Len(hist) - 1 < MAX_UNDO_COUNT =>
        /\ phase = "undo" => MemoryAndFileAre(hist[Len(hist) - nundo])
        /\ phase = "redo" /\ nredo = nundo => MemoryAndFileAre(hist[Len(hist)])

\* what the claims C6 and C7 expect of a request c made with the frame at
\* 0-based index i selected
ExpectedRequest(c, i) ==
    LET n == Len(c.frames)
    IN  IF n = 0 THEN c.fn = "next" /\ c.images = <<c.base>>
        ELSE /\ c.fn = "between"
             /\ c.images =
                  IF c.where = "before"
                  THEN (IF i = 0 THEN <<c.base, c.frames[1]>>
                        ELSE <<c.frames[i], c.frames[i + 1]>>)
                  ELSE (IF i = n - 1 THEN <<c.frames[i + 1], c.base>>
                        ELSE <<c.frames[i + 1], c.frames[i + 2]>>)

\* C6: with zero frames an add-AI-frame request is generate-next on the base
\* image; with frame i selected, 'before' asks for an image between
\* [base_image, frames[0]] (i = 0) or [frames[i-1], frames[i]], and 'after'
\* for one between [frames[i], base_image] (i last) or [frames[i], frames[i+1]].
C6_AiRequestBySelection ==
    \A c \in Range(calls) :
        (c.sel >= 1 \/ Len(c.frames) = 0) =>
            ExpectedRequest(c, IF c.sel >= 1 THEN c.sel - 1 ELSE 0)

C6_Witness ==
    /\ \E c \in Range(calls) :
           c.where = "after" /\ Len(c.frames) = 3 /\ c.sel = 3
                /\ c.result = "ok"
    /\ last.op = "add_ai_generated_frame_after"

\* C7: add-AI-frame-after with no frame selected on an animation of n >= 1
\* frames asks for an image between [frames[n-1], base_image] and inserts the
\* new frame at index n.
C7_NoSelectionIsEndOfList ==
    \A c \in Range(calls) :
        (c.where = "after" /\ c.sel = 0 /\ Len(c.frames) >= 1) =>
            /\ ExpectedRequest(c, Len(c.frames) - 1)
            /\ c.index = Len(c.frames)

\* C8: when the backend returns no result for an add-AI-frame action, the
\* document, the undo and redo stacks and the persisted file are unchanged.
C8_NoResultChangesNothing ==
    [][(/\ nops' = nops + 1
        /\ last'.op \in AiFrameOps
        /\ calls' # <<>>
        /\ calls'[1].result = "none")
       => (/\ sprite_data' = sprite_data
           /\ undo_stack' = undo_stack
           /\ redo_stack' = redo_stack
           /\ disk' = disk)]_vars

C8_Witness ==
    /\ last.op \in AiFrameOps
    /\ calls # <<>>
    /\ calls[1].result = "none"
    /\ Len(calls[1].frames) >= 1

\* C9: no exception propagates out of _add_ai_generated_frame_before or
\* _add_ai_generated_frame_after when the generation call or its setup raises.
C9_NoExceptionEscapes ==
    last.op \in AiFrameOps => ~escaped

\* the paths of one _insert_frames_at_index call that are to be inserted: the
\* stored paths, in input order, without those already in the frame list and
\* without repetitions
RECURSIVE Kept(_, _, _)
Kept(resolved, present, acc) ==
    IF resolved = <<>> THEN acc
    ELSE LET p == resolved[1]
         IN  Kept(Tail(resolved), present,
                  IF p = NoPath \/ Contains(present, p) \/ Contains(acc, p)
                  THEN acc ELSE Append(acc, p))

\* C10: inserting a list of paths at index i skips every path already in the
\* frame list (or inserted earlier in the call), puts the others in input
\* order at consecutive positions from i, keeps the old frames in their
\* order, and commits exactly once if a path was inserted, else not at all.
C10_InsertFrames ==
    \A r \in Range(inserts) :
        LET kept == Kept(r.resolved, r.before, <<>>)
        IN  /\ r.index <= Len(r.before)
            /\ r.after = SubSeq(r.before, 1, r.index) \o kept
                           \o SubSeq(r.before, r.index + 1, Len(r.before))
            /\ r.ncommits = IF kept # <<>> THEN 1 ELSE 0

C10_Witness ==
    \E r \in Range(inserts) :
        /\ Len(r.paths) = 4
        /\ Len(Kept(r.resolved, r.before, <<>>)) = 2
        /\ r.index = 1
        /\ Len(r.before) = 1

\* ------------------------------------------------- switching sprite files
\* the editor with two sprite files in the project; the user opens either one
\* from the sidebar, renames the open sprite, undoes and redoes
MaxSwitchOps == 5

MobFile == "mob.sprite"
DocMob == SpriteFile("mob", Y, <<Animation("run", <<F4>>)>>)

InitSwitch ==
    /\ current_file_path = ""
    /\ sprite_data = NoSprite
    /\ name_edit = ""
    /\ loader_path = NoPath
    /\ anim_items = <<>>
    /\ anim_cur = 0
    /\ frame_items = <<>>
    /\ frame_cur = 0
    /\ undo_stack = <<>>
    /\ redo_stack = <<>>
    /\ disk = [fp \in {HeroFile, MobFile} |->
                 IF fp = HeroFile THEN to_dict(DocWalk, SageDir)
                 ELSE to_dict(DocMob, SageDir)]
    /\ files = {F1, F2, F3, F4, X, Y}
    /\ nops = 0
    /\ last = [op |-> "init"]
    /\ commits = <<>>
    /\ calls = <<>>
    /\ inserts = <<>>
    /\ escaped = FALSE
    /\ hist = <<>>
    /\ phase = "other"
    /\ nundo = 0
    /\ nredo = 0
    /\ MgrIdle
    /\ ExportIdle
    /\ RoundIdle
    /\ EwIdle
    /\ SideIdle

\* EditorWidget.load_file of a sprite file; readable is whether from_json
\* could read and parse the file at that moment
SwitchLoad(fp, readable) ==
    LET e == IF readable THEN load_sprite_data(Ed, fp)
             ELSE load_sprite_data_failed(Ed, fp)
    IN  /\ HandlerCore(MaxSwitchOps,
                       [op |-> "load_sprite_data", file |-> fp,
                        readable |-> readable],
                       "other", e)
        \* _load_sprite_file: the except branch runs when load_sprite_data
        \* raised
        /\ ew_current_file_path' = IF e.exc THEN "" ELSE fp
        /\ ew_widget' = IF e.exc THEN "plain_text_editor" ELSE "sprite_editor"

\* EditorWidget.save: nothing without a current file, else the sprite
\* editor's save()
SwitchSave ==
    HandlerN(MaxSwitchOps, [op |-> "save"], "edit",
             IF ew_current_file_path = "" THEN Ed ELSE save(Ed))

SwitchNameChanged(text) ==
    /\ sprite_data # NoSprite
    /\ text # name_edit
    /\ HandlerN(MaxSwitchOps, [op |-> "name_changed"], "edit",
                on_name_changed(Ed, text))

SwitchUndo ==
    /\ sprite_data # NoSprite
    /\ HandlerN(MaxSwitchOps, [op |-> "undo"], "undo", undo(Ed))

SwitchRedo ==
    /\ sprite_data # NoSprite
    /\ HandlerN(MaxSwitchOps, [op |-> "redo"], "redo", redo(Ed))

NextSwitch ==
    \/ \E fp \in {HeroFile, MobFile}, readable \in BOOLEAN :
           SwitchLoad(fp, readable)
    \/ \E text \in NameTexts : SwitchNameChanged(text)
    \/ SwitchUndo
    \/ SwitchRedo
    \/ SwitchSave

SpecSwitch == InitSwitch /\ [][NextSwitch]_vars

\* ------------------------------------------------ saving and loading back
\* one SpriteFile is serialized with to_dict, read back with from_dict and
\* serialized again, all against the project directory SageDir

\* the longest frame list of a document serialized
MaxRoundFrames == 2

\* absolute paths: in the project, in a folder of it, outside it (as the file
\* dialog gives it and as from_dict leaves it), in the root directory, and
\* the project directory itself
RoundPaths ==
    {F1,
     SageDir \o <<<<"sub", 0>>, <<"f2", 0>>>>,
     InExt("f1"),
     SageDir \o <<UpDir, <<"ext", 0>>, <<"f1", 0>>>>,
     <<Root, <<"f1", 0>>>>,
     SageDir}

RoundFrames ==
    {fr \in UNION {[1..n -> RoundPaths] : n \in 0..MaxRoundFrames} :
        Len(fr) = 2 => fr[1] \in {F1, InExt("f1")}}

RoundAnimations ==
    {<<>>}
      \cup {<<Animation(n, fr)>> : n \in ExportNames, fr \in RoundFrames}
      \cup {<<Animation(ns[1], fr1), Animation(ns[2], fr2)>> :
              ns \in {<<"a", "b">>, <<"b", "a">>},
              fr1 \in RoundFrames, fr2 \in {<<>>, <<InExt("f1")>>}}

InitRound ==
    /\ undo_stack = <<>>
    /\ redo_stack = <<>>
    /\ MgrIdle
    /\ EditorIdle
    /\ ExportIdle
    /\ \E b \in {NoPath} \cup RoundPaths, anims \in RoundAnimations :
           rt_doc = SpriteFile("hero", b, anims)
    /\ rt_out = [kind |-> "none"]
    /\ EwIdle
    /\ SideIdle

\* SpriteFile.save, SpriteFile.from_json, SpriteFile.save
RoundTrip ==
    /\ rt_out.kind = "none"
    /\ LET once == to_dict(rt_doc, SageDir)
           back == from_dict(once, SageDir)
       IN  rt_out' = [kind |-> "done", once |-> once, back |-> back,
                      twice |-> to_dict(back, SageDir)]
    /\ UNCHANGED <<rt_doc, edvars, stacks, mgrghost, expvars, ewvars,
                   sidevars>>

NextRound == RoundTrip

SpecRound == InitRound /\ [][NextRound]_vars

\* ------------------------------------------------------- the project file
\* the "Reference Images" of a .sage file through SageFile.from_dict, the
\* sage editor's load_data, get_modified_sage_file and SageFile.to_dict; the
\* other fields are strings handed through unchanged

\* Reference Images has exactly this many slots
RefSlots == 4

\* what a slot of the file holds: "" (unset), or a path relative to the
\* project directory
Unset == <<>>
SlotChoices == {Unset, <<<<"reference_images", 0>>, <<"r1", 0>>>>, <<<<"r2", 0>>>>}

\* SageFile.from_dict: os.path.join(directory, x) for every slot; joining ""
\* gives the directory with a trailing separator
sage_from_dict(slots, directory) ==
    [i \in DOMAIN slots |-> join(directory, slots[i])]

\* SageFile.to_dict
sage_to_dict(reference_images, directory) ==
    [i \in DOMAIN reference_images |-> relpath(reference_images[i], directory)]

\* load_data: the four loaders built from self.sage_file.to_dict(); a loader
\* is given its path only if the path is a non-empty string
sage_load_data(reference_images, directory) ==
    LET value == sage_to_dict(reference_images, directory)
    IN  [i \in 1..RefSlots |->
           IF i \in DOMAIN value /\ value[i] # Unset
           THEN load_image(directory, value[i])
           ELSE NoPath]

\* ImageLoaderWidget.get_relative_path; NoPath stands for None
get_relative_path(absolute_path, sage_dir) ==
    IF absolute_path = NoPath THEN NoPath ELSE relpath(absolute_path, sage_dir)

\* get_modified_sage_file: "" for a loader without a path
get_modified_sage_file(loaders, directory) ==
    sage_from_dict([i \in 1..RefSlots |->
                      LET rel_path == get_relative_path(loaders[i], directory)
                      IN  IF rel_path # NoPath THEN rel_path ELSE Unset],
                   directory)

InitSage ==
    /\ undo_stack = <<>>
    /\ redo_stack = <<>>
    /\ MgrIdle
    /\ EditorIdle
    /\ ExportIdle
    /\ RoundIdle
    /\ EwIdle
    /\ sg_file \in [1..RefSlots -> SlotChoices]
    /\ sg_loaders = <<>>
    /\ sg_out = [kind |-> "none"]
    /\ BusyIdle

\* EditorWidget._load_sage_file: SageFile.from_json, then load_data
SageLoad ==
    /\ sg_out.kind = "none"
    /\ sg_loaders' = sage_load_data(sage_from_dict(sg_file, SageDir), SageDir)
    /\ sg_out' = [kind |-> "loaded",
                  reference_images |-> sage_from_dict(sg_file, SageDir),
                  serialized |-> sage_to_dict(sage_from_dict(sg_file, SageDir),
                                              SageDir)]
    /\ UNCHANGED <<sg_file, busy, edvars, stacks, mgrghost, expvars, rtvars,
                   ewvars>>

\* SageEditorView.save: the file gets to_dict() of get_modified_sage_file()
SageSave ==
    /\ sg_out.kind = "loaded"
    /\ sg_out' = [kind |-> "saved",
                  written |-> sage_to_dict(
                                get_modified_sage_file(sg_loaders, SageDir),
                                SageDir)]
    /\ UNCHANGED <<sg_file, sg_loaders, busy, edvars, stacks, mgrghost, expvars,
                   rtvars, ewvars>>

NextSage == SageLoad \/ SageSave

SpecSage == InitSage /\ [][NextSage]_vars

\* ------------------------------------------------------- call_with_busy
\* One call of call_with_busy(parent, fn): the calling (GUI) thread and the
\* QThread that runs fn, step by step.  busy is a record:
\*   pc        the statement the caller is at
\*   wpc       where the worker's thread is
\*   delivery  how the binding delivers a signal emitted in the worker's
\*             thread to on_finished / on_error, which are plain closures and
\*             not slots of a QObject: "direct" calls them in the emitting
\*             thread, "queued" posts them to the thread that connected them
\*   dlg       the BusyIndicator: "hidden", "shown", "closed"
\*   loop      the closure variable loop: "unbound", "created", "running",
\*             "done"
\*   loop_exit the exit flag of the QEventLoop
\*   thread_exited  the exited flag of the QThread
\*   events    the events posted to the caller's thread, oldest first
\*   result_container  the dict, as a set of <<key, value>>
\*   fn        how fn ended ("pending" while it has not)
\*   slot_raised  on_finished / on_error raised NameError
\*   ret       what call_with_busy returned or raised
BusyOutcomes == {[kind |-> "return", value |-> "image"],
                 [kind |-> "return", value |-> "None"],
                 [kind |-> "raise", value |-> "exc"]}

Deliveries == {"direct", "queued"}

\* lines 68-87: the dialog, the thread and the worker exist, the signals are
\* connected, nothing has been shown or started
NewCall(delivery) ==
    [pc |-> "show", wpc |-> "not_started", delivery |-> delivery,
     dlg |-> "hidden", loop |-> "unbound", loop_exit |-> FALSE,
     thread_exited |-> FALSE, events |-> <<>>, result_container |-> {},
     fn |-> [kind |-> "pending"], slot_raised |-> FALSE,
     ret |-> [kind |-> "none"]]

\* on_finished(result) / on_error(exc): store under key, then loop.quit().
\* loop is a free variable of the closure: read before "loop = QEventLoop()"
\* it raises NameError; QEventLoop.quit() sets the exit flag
on_callback(b, key, value) ==
    LET b1 == [b EXCEPT !.result_container = @ \cup {<<key, value>>}]
    IN  IF b.loop = "unbound" THEN [b1 EXCEPT !.slot_raised = TRUE]
        ELSE [b1 EXCEPT !.loop_exit = TRUE]

\* _finished.emit(result) / _errored.emit(e) in the worker's thread: the
\* closure, then thread.quit, a slot of the QThread object, which lives in the
\* caller's thread
emit(b, key, value) ==
    LET b1 == IF b.delivery = "direct" THEN on_callback(b, key, value)
              ELSE [b EXCEPT !.events = Append(@, <<key, value>>)]
    IN  [b1 EXCEPT !.events = Append(@, <<"thread.quit", "">>)]

\* _Worker.run
run(b, outcome) ==
    LET b1 == [b EXCEPT !.fn = outcome, !.wpc = "emitted"]
    IN  IF outcome.kind = "return" THEN emit(b1, "result", outcome.value)
        ELSE emit(b1, "error", outcome.value)

\* the end of call_with_busy
result_of(result_container) ==
    IF \E e \in result_container : e[1] = "error"
    THEN [kind |-> "raise",
          value |-> (CHOOSE e \in result_container : e[1] = "error")[2]]
    ELSE IF \E e \in result_container : e[1] = "result"
    THEN [kind |-> "return",
          value |-> (CHOOSE e \in result_container : e[1] = "result")[2]]
    ELSE [kind |-> "return", value |-> "None"]

InitBusy ==
    /\ undo_stack = <<>>
    /\ redo_stack = <<>>
    /\ MgrIdle
    /\ EditorIdle
    /\ ExportIdle
    /\ RoundIdle
    /\ EwIdle
    /\ SageIdle
    /\ busy \in {NewCall(d) : d \in Deliveries}

BusyStep(b) ==
    /\ busy' = b
    /\ UNCHANGED <<edvars, stacks, mgrghost, expvars, rtvars, ewvars, sgvars>>

\* ---- the caller's thread
\* dlg.show()
BusyShow ==
    /\ busy.pc = "show"
    /\ BusyStep([busy EXCEPT !.dlg = "shown", !.pc = "start"])

\* thread.start()
BusyStart ==
    /\ busy.pc = "start"
    /\ BusyStep([busy EXCEPT !.wpc = "running", !.pc = "make_loop"])

\* loop = QEventLoop()
BusyMakeLoop ==
    /\ busy.pc = "make_loop"
    /\ BusyStep([busy EXCEPT !.loop = "created", !.pc = "exec"])

\* loop.exec() begins: QEventLoop::exec clears the exit flag
BusyEnterExec ==
    /\ busy.pc = "exec"
    /\ BusyStep([busy EXCEPT !.loop = "running", !.loop_exit = FALSE,
                             !.pc = "in_exec"])

\* inside loop.exec(): the oldest event posted to this thread is delivered
BusyDispatch ==
    /\ busy.pc = "in_exec"
    /\ busy.events # <<>>
    /\ LET ev == Head(busy.events)
           b1 == [busy EXCEPT !.events = Tail(@)]
       IN  BusyStep(IF ev[1] = "thread.quit"
                    THEN [b1 EXCEPT !.thread_exited = TRUE]
                    ELSE on_callback(b1, ev[1], ev[2]))

\* loop.exec() returns once the exit flag is set
BusyLeaveExec ==
    /\ busy.pc = "in_exec"
    /\ busy.loop_exit
    /\ BusyStep([busy EXCEPT !.loop = "done", !.pc = "close"])

\* dlg.close()
BusyClose ==
    /\ busy.pc = "close"
    /\ BusyStep([busy EXCEPT !.dlg = "closed", !.pc = "quit"])

\* thread.quit()
BusyQuit ==
    /\ busy.pc = "quit"
    /\ BusyStep([busy EXCEPT !.thread_exited = TRUE, !.pc = "wait"])

\* thread.wait() returns when the thread has finished
BusyWait ==
    /\ busy.pc = "wait"
    /\ busy.wpc = "finished"
    /\ BusyStep([busy EXCEPT !.pc = "return"])

\* raise result_container['error'] / return result_container.get('result')
BusyReturn ==
    /\ busy.pc = "return"
    /\ BusyStep([busy EXCEPT !.ret = result_of(busy.result_container),
                             !.pc = "returned"])

\* ---- the worker's thread
\* started -> worker.run: fn ends one way or another and the signal is emitted
BusyRun(outcome) ==
    /\ busy.wpc = "running"
    /\ BusyStep(run(busy, outcome))

\* QThread::run -> exec(): returns at once if quit() was called before
BusyThreadExec ==
    /\ busy.wpc = "emitted"
    /\ BusyStep(IF busy.thread_exited
                THEN [busy EXCEPT !.thread_exited = FALSE, !.wpc = "finished"]
                ELSE [busy EXCEPT !.wpc = "in_exec"])

\* the thread's event loop ends after quit()
BusyThreadLeave ==
    /\ busy.wpc = "in_exec"
    /\ busy.thread_exited
    /\ BusyStep([busy EXCEPT !.wpc = "finished"])

CallerStep ==
    \/ BusyShow
    \/ BusyStart
    \/ BusyMakeLoop
    \/ BusyEnterExec
    \/ BusyDispatch
    \/ BusyLeaveExec
    \/ BusyClose
    \/ BusyQuit
    \/ BusyWait
    \/ BusyReturn

WorkerStep ==
    \/ \E outcome \in BusyOutcomes : BusyRun(outcome)
    \/ BusyThreadExec
    \/ BusyThreadLeave

NextBusy == CallerStep \/ WorkerStep

SpecBusy == InitBusy /\ [][NextBusy]_vars

\* both threads keep running, and fn ends
SpecBusyFair == SpecBusy /\ WF_vars(CallerStep) /\ WF_vars(WorkerStep)

\* ------------------------------------------------------------ claims C11..
\* a handler step of the editor
Step(op) == nops' = nops + 1 /\ last'.op = op

DocumentUntouched ==
    /\ sprite_data' = sprite_data
    /\ undo_stack' = undo_stack
    /\ redo_stack' = redo_stack
    /\ disk' = disk

\* C11: moving the first frame of an animation up, or the last frame down,
\* leaves the frame list unchanged, creates no undo entry, leaves the redo
\* stack alone and persists nothing.
C11_MoveAtBoundaryIsNoOp ==
    [][/\ (Step("move_frame_up") /\ anim_cur # 0 /\ frame_cur = 1)
            => DocumentUntouched /\ commits' = <<>>
       /\ (Step("move_frame_down") /\ anim_cur # 0 /\ frame_cur # 0
              /\ frame_cur = Len(get_animation_frames(sprite_data, CurAnim(Ed))))
            => DocumentUntouched /\ commits' = <<>>]_vars

C11_Witness ==
    /\ last.op = "move_frame_up"
    /\ frame_cur = 1
    /\ Len(frame_items) >= 2
    /\ commits = <<>>

\* the last call on the manager was save_undo_state of a state that is not
\* value-equal to the entry it found on top of the undo stack
SavedNewState ==
    /\ mgr_last.op = "save_undo_state"
    /\ \/ mgr_last.undo_before = <<>>
       \/ ~SpriteEq(mgr_last.arg,
                    mgr_last.undo_before[Len(mgr_last.undo_before)])

\* C12: the undo stack never holds more than MAX_UNDO_COUNT entries; saving a
\* new state onto a full stack drops the oldest entry and keeps the others in
\* their order, leaving exactly MAX_UNDO_COUNT entries.
C12_CapacityEvictsOldest ==
    /\ Len(undo_stack) <= MAX_UNDO_COUNT
    /\ (SavedNewState /\ Len(mgr_last.undo_before) = MAX_UNDO_COUNT)
         => undo_stack = Append(Tail(mgr_last.undo_before), mgr_last.arg)

C12_Witness ==
    /\ SavedNewState
    /\ Len(mgr_last.undo_before) = MAX_UNDO_COUNT
    /\ Len(undo_stack) = MAX_UNDO_COUNT

\* C13: save_undo_state(s) with s value-equal to the top of the undo stack
\* leaves the undo stack unchanged.
C13_EqualStateIsNotPushed ==
    (mgr_last.op = "save_undo_state" /\ ~SavedNewState)
        => undo_stack = mgr_last.undo_before

C13_Witness ==
    /\ mgr_last.op = "save_undo_state"
    /\ ~SavedNewState
    /\ Len(undo_stack) = 1

\* C14: perform_undo on an empty undo stack and perform_redo on an empty redo
\* stack return None and leave both stacks unchanged.
C14_EmptyHistoryIsNoOp ==
    /\ (mgr_last.op = "perform_undo" /\ mgr_last.undo_before = <<>>)
         => /\ mgr_last.ret = NoSprite
            /\ undo_stack = <<>>
            /\ redo_stack = mgr_last.redo_before
    /\ (mgr_last.op = "perform_redo" /\ mgr_last.redo_before = <<>>)
         => /\ mgr_last.ret = NoSprite
            /\ redo_stack = <<>>
            /\ undo_stack = mgr_last.undo_before

C14_Witness ==
    /\ mgr_last.op = "perform_undo"
    /\ mgr_last.undo_before = <<>>
    /\ mgr_last.redo_before # <<>>

\* the powers of two up to the largest side an export of the model can need
PowersOfTwo == {2 ^ k : k \in 0..(2 * MaxCell)}

\* a square of this side holds num_frames cells of the document's size
Fits(side, doc, num_frames) ==
    (side \div doc.width) * (side \div doc.height) >= num_frames

\* C15: for frame cells of w x h >= 1 and N >= 1 frames, the side
\* determine_sheet_size(N) returns is a power of two, its grid of
\* (side // w) * (side // h) cells holds the N frames, and no smaller power
\* of two does.
C15_SheetSizeIsMinimalPowerOfTwo ==
    exp_out.kind = "tres" =>
        LET N == Len(get_all_frame_paths(exp_doc))
            side == exp_out.sheet_size
        IN  /\ N >= 1
            /\ side = determine_sheet_size(exp_doc, N)
            /\ side \in PowersOfTwo
            /\ Fits(side, exp_doc, N)
            /\ \A smaller \in PowersOfTwo :
                   smaller < side => ~Fits(smaller, exp_doc, N)

\* the loop of determine_sheet_size doubled the side it started from
C15_Witness ==
    /\ exp_out.kind = "tres"
    /\ exp_out.sheet_size
          > next_power_of_two(IF exp_doc.width > exp_doc.height
                              THEN exp_doc.width ELSE exp_doc.height)
    /\ exp_doc.width # exp_doc.height

\* the commits of the last handler that brought animation name into the file
CommitsAdding(cs, name) ==
    {i \in DOMAIN cs : /\ name \notin Keys(cs[i].pre.animations)
                       /\ name \in Keys(cs[i].post.animations)}

\* C16: Add Animation accepted with a name that is empty after trimming, or
\* that is already a key of the animations (compared exactly, case included),
\* changes neither the animations, nor the undo and redo stacks, nor the file;
\* with any other name the animation is added once, with no frames, and its
\* addition is committed exactly once.
C16_AddAnimationValidatesName ==
    [][(Step("add_animation") /\ sprite_data # NoSprite /\ last'.accepted) =>
          LET anim_name == strip(last'.text)
              added == DictSet(sprite_data.animations, anim_name, <<>>)
          IN  IF anim_name = "" \/ anim_name \in Keys(sprite_data.animations)
              THEN DocumentUntouched /\ commits' = <<>>
              ELSE /\ commits' # <<>>
                   /\ commits'[1].post.animations = added
                   /\ Cardinality(CommitsAdding(commits', anim_name)) = 1
                   /\ calls' = <<>> => /\ Len(commits') = 1
                                       /\ sprite_data'.animations = added
      ]_vars

\* "A" was added to a sprite that has an animation "a"
C16_Witness ==
    /\ last.op = "add_animation"
    /\ last.text = "A"
    /\ Len(commits) = 1
    /\ calls = <<>>
    /\ {"a", "A"} \subseteq Keys(sprite_data.animations)
    /\ get_animation_frames(sprite_data, "A") = <<>>

\* the paths selected in the frame list: the list is single-selection
SelectedFrames == {frame_items[frame_cur]}

C18_FileEqualsMemory ==
    sprite_data # NoSprite =>
        disk[current_file_path] = to_dict(sprite_data, SageDir)

\* an undo took back a change of the name, in memory and in the file
C18_Witness ==
    /\ last.op = "undo"
    /\ sprite_data # NoSprite
    /\ redo_stack # <<>>
    /\ redo_stack[Len(redo_stack)].name # sprite_data.name
    /\ disk[current_file_path].name = sprite_data.name

\* the sprite file a document of SpecSwitch comes from: no action of
\* SpecSwitch changes a base image, and the two files have different ones
FileOf(doc) == IF doc.base_image = DocWalk.base_image THEN HeroFile ELSE MobFile

Snapshots == Range(undo_stack) \cup Range(redo_stack)

\* C19: history never crosses documents: while a sprite file is open, every
\* snapshot on the undo and redo stacks was taken from that file (loading
\* another file empties both stacks), and no sprite file holds a document of
\* another one (undo and redo write a file's own snapshots only).
C19_HistoryNeverCrossesDocuments ==
    /\ current_file_path # "" =>
           \A s \in Snapshots : FileOf(s) = current_file_path
    /\ \A fp \in DOMAIN disk : FileOf(from_dict(disk[fp], SageDir)) = fp

\* the animation names of a document or of its serialization, in order
NamesOf(animations) == [i \in DOMAIN animations |-> animations[i].name]

\* the files the frames of the i-th animation denote, in order
FilesOf(animations, i) ==
    [k \in DOMAIN animations[i].frames |-> abspath(animations[i].frames[k])]

\* C20: for a SpriteFile x whose base image is absent or an absolute path and
\* whose frames are absolute paths, and a fixed project directory,
\* to_dict(from_dict(to_dict(x))) = to_dict(x); the animation names, their
\* order and the order of each animation's frames are those of x.
C20_SerializationRoundTrip ==
    rt_out.kind = "done" =>
        /\ rt_out.twice = rt_out.once
        /\ NamesOf(rt_out.once.animations) = NamesOf(rt_doc.animations)
        /\ NamesOf(rt_out.back.animations) = NamesOf(rt_doc.animations)
        /\ \A i \in DOMAIN rt_doc.animations :
               FilesOf(rt_out.back.animations, i) = FilesOf(rt_doc.animations, i)
        /\ (rt_doc.base_image = NoPath) = (rt_out.back.base_image = NoPath)
        /\ rt_doc.base_image # NoPath =>
               abspath(rt_out.back.base_image) = abspath(rt_doc.base_image)

\* animation "b" before "a", a frame outside the project that is stored with
\* a leading ".." and comes back as <project>/../ext/f1
C20_Witness ==
    /\ rt_out.kind = "done"
    /\ NamesOf(rt_doc.animations) = <<"b", "a">>
    /\ rt_doc.animations[1].frames = <<F1, InExt("f1")>>
    /\ rt_out.once.animations[1].frames[2][1] = UpDir
    /\ rt_out.back.animations[1].frames[2] # InExt("f1")
    /\ rt_doc.base_image # NoPath

\* the last handler was a load_sprite_data whose file could not be read
LoadJustFailed == last.op = "load_sprite_data" /\ ~last.readable

\* C21: a load_sprite_data that cannot read or parse the file raises nothing
\* and leaves the sprite editor unloaded (no sprite_data, no
\* current_file_path, hence no base directory); a save() that follows writes
\* nothing and pushes no undo state.
C21_FailedLoadFallsBackToUnloaded ==
    [][/\ (Step("load_sprite_data") /\ ~last'.readable)
            => /\ sprite_data' = NoSprite
               /\ current_file_path' = ""
               /\ ~escaped'
       /\ (Step("save") /\ LoadJustFailed)
            => /\ DocumentUntouched
               /\ commits' = <<>>
               /\ ~escaped']_vars

\* save() was called on the editor a failed load left unloaded, with a
\* snapshot of the sprite edited before still on the undo stack
C21_Witness ==
    /\ last.op = "save"
    /\ sprite_data = NoSprite
    /\ current_file_path = ""
    /\ ew_current_file_path # ""
    /\ undo_stack # <<>>

\* C22: after EditorWidget.load_file of a .sprite file, the EditorWidget's
\* current_file_path is the requested path and the sprite editor is shown
\* only if the load succeeded; after a failed load the path is None and the
\* read-only plain-text view is shown.
C22_FailedLoadShowsErrorView ==
    last.op = "load_sprite_data" =>
        IF last.readable
        THEN ew_current_file_path = last.file /\ ew_widget = "sprite_editor"
        ELSE ew_current_file_path = "" /\ ew_widget = "plain_text_editor"

\* C23: a SageFile is serialized with "" in every unset reference-image
\* slot: a project file whose slots are "" has "" in those slots when it is
\* serialized after loading, and when the sage editor saves it again.
C23_UnsetSlotsStayEmpty ==
    \A i \in DOMAIN sg_file :
        sg_file[i] = Unset =>
            /\ sg_out.kind = "loaded" => sg_out.serialized[i] = Unset
            /\ sg_out.kind = "saved" => sg_out.written[i] = Unset

\* C24: after any sequence of save_undo_state, perform_undo, perform_redo and
\* clear calls the two stacks together hold at most MAX_UNDO_COUNT entries,
\* so the redo stack, which has no cap of its own, is bounded and
\* perform_redo never pushes the undo stack past its capacity.
C24_StacksTogetherWithinCapacity ==
    Len(undo_stack) + Len(redo_stack) <= MAX_UNDO_COUNT

\* perform_redo filled the undo stack to its capacity
C24_Witness ==
    /\ mgr_last.op = "perform_redo"
    /\ Len(undo_stack) = MAX_UNDO_COUNT
    /\ Len(mgr_last.redo_before) >= 1

\* the i-th path of insert record r is outside the base directory and its
\* copy succeeded
CopiedIn(r, i) ==
    /\ ~IsUnder(abspath(r.paths[i]), normpath(SageDir))
    /\ r.resolved[i] # NoPath

\* the files of the base directory when the i-th path of r is copied
TakenAt(r, i, before) ==
    before \cup {r.resolved[j] : j \in {k \in 1..(i - 1) : CopiedIn(r, k)}}

\* C25: a frame path outside the sprite's base directory is copied to a name
\* in the base directory that no file had before the copy, the original
\* basename or else the first unused of name_1, name_2, ...; no file of the
\* base directory is lost or written over, and the frame list gets the path
\* of the copy, not the path of the source.
C25_CopiesNeverOverwrite ==
    [][(Step("add_frame_before") \/ Step("add_frame_after")) =>
          /\ files \subseteq files'
          /\ \A r \in Range(inserts') : \A i \in DOMAIN r.paths :
                CopiedIn(r, i) =>
                   LET copy == r.resolved[i]
                       name == basename(abspath(r.paths[i]))[1]
                       taken == TakenAt(r, i, files)
                   IN  /\ copy \notin taken
                       /\ copy \in files'
                       /\ dirname(copy) = SageDir
                       /\ basename(copy)[1] = name
                       /\ \A k \in 0..(basename(copy)[2] - 1) :
                              Append(SageDir, <<name, k>>) \in taken
                       /\ Contains(r.after, copy)
                       /\ Contains(r.after, r.paths[i])
                              => Contains(r.before, r.paths[i])
      ]_vars

\* the same outside file was inserted a second time: its copies are f1_1 and
\* f1_2 beside the project's own f1
C25_Witness ==
    /\ last.op \in {"add_frame_before", "add_frame_after"}
    /\ \E r \in Range(inserts) : \E i \in DOMAIN r.paths :
           /\ r.paths[i] = InExt("f1")
           /\ r.resolved[i] = Append(SageDir, <<"f1", 2>>)
    /\ {F1, Append(SageDir, <<"f1", 1>>), Append(SageDir, <<"f1", 2>>)}
           \subseteq files

\* C26: within one export, the identifiers of the atlas sub-resources of
\* different frames are different, whatever the random id generation gives.
C26_SubResourceIdsDistinct ==
    exp_out.kind = "tres" => IdsDistinct(exp_out)

\* C27: on a manager whose undo stack has top p, with a current state c
\* different from p, perform_undo(c) returns p, the perform_redo() that follows
\* returns c, and a further perform_undo(c) returns p again, never a state
\* equal to c.
UndoThenRedo ==
    /\ mgr_prev.op = "perform_undo"
    /\ mgr_prev.undo_before # <<>>
    /\ ~SpriteEq(mgr_prev.arg, mgr_prev.undo_before[Len(mgr_prev.undo_before)])
    /\ mgr_last.op = "perform_redo"

C27_UndoRedoUndoReturnsSame ==
    [][(/\ UndoThenRedo
        /\ mgr_prev' = mgr_last
        /\ mgr_last'.op = "perform_undo"
        /\ mgr_last'.arg = mgr_prev.arg)
       => LET p == mgr_prev.undo_before[Len(mgr_prev.undo_before)]
              c == mgr_prev.arg
          IN  /\ SpriteEq(mgr_prev.ret, p)
              /\ SpriteEq(mgr_last.ret, c)
              /\ SpriteEq(mgr_last'.ret, p)
              /\ ~SpriteEq(mgr_last'.ret, c)]_vars

\* C28: from a loaded sprite whose animations hold no path twice, after any
\* sequence of inserts, AI additions, removals, moves, animation additions and
\* removals, undo and redo, no animation's frame list holds the same path
\* twice.
NoRepeatedPath(frames) ==
    \A i, j \in 1..Len(frames) : frames[i] = frames[j] => i = j

C28_NoRepeatedPathInAnimation ==
    sprite_data # NoSprite
        => \A a \in 1..Len(sprite_data.animations) :
               NoRepeatedPath(sprite_data.animations[a].frames)

\* a path the animation already had was offered again and left out
C28_Witness ==
    /\ sprite_data # NoSprite
    /\ \E r \in Range(inserts) : \E i \in DOMAIN r.resolved :
          /\ r.resolved[i] # NoPath
          /\ Contains(r.before, r.resolved[i])
          /\ r.after = r.before
          /\ r.after = get_animation_frames(sprite_data, r.anim)

\* C29: for every interleaving of the two threads call_with_busy eventually
\* returns after fn has finished, with fn's result or raising fn's exception,
\* also when fn finishes before the caller has entered its nested event loop;
\* when it returns the busy dialog is closed and the worker's thread stopped.
BusyReturned == busy.pc = "returned"

CellInside(c, w, h, side) ==
    /\ 0 <= c.x /\ c.x + w <= side
    /\ 0 <= c.y /\ c.y + h <= side

\* two w x h cells have no pixel in common
CellsApart(c, d, w, h) ==
    \/ c.x + w <= d.x \/ d.x + w <= c.x
    \/ c.y + h <= d.y \/ d.y + h <= c.y

\* C30: for w, h >= 1, N >= 1 and side = determine_sheet_size(N), with
\* cols = side // w, frame i of 0..N-1 is put at ((i % cols) * w,
\* (i // cols) * h), its w x h cell lies inside the side x side atlas, and the
\* cells of two different frames do not overlap; this for the cells the packer
\* pastes and for the regions the exporter writes.
C30_CellsInsideAndDisjoint ==
    exp_out.kind = "tres" =>
        LET w == exp_doc.width
            h == exp_doc.height
            N == Len(get_all_frame_paths(exp_doc))
            side == exp_out.sheet_size
            cols == side \div w
        IN  /\ side = determine_sheet_size(exp_doc, N)
            /\ DOMAIN exp_out.pasted = 1..N
            /\ DOMAIN exp_out.regions = 1..N
            /\ \A cells \in {exp_out.pasted, exp_out.regions} :
                  /\ \A i \in 1..N :
                        /\ cells[i].x = ((i - 1) % cols) * w
                        /\ cells[i].y = ((i - 1) \div cols) * h
                        /\ CellInside(cells[i], w, h, side)
                  /\ \A i, j \in 1..N :
                        i # j => CellsApart(cells[i], cells[j], w, h)

\* an export whose grid has a second column and a second row, the last row
\* not full
C30_Witness ==
    /\ exp_out.kind = "tres"
    /\ exp_doc.width # exp_doc.height
    /\ Len(exp_out.regions) = 3
    /\ exp_out.regions[2].x > 0
    /\ exp_out.regions[3].y > 0
    /\ exp_out.regions[3].x = 0

====
